---- MODULE Spec2Model ----
(***************************************************************************)
(* laravel-i18n-audit: the scanner (scanner.js: parseGitignore,            *)
(* stripComments, extractKeys), the catalog loader (loaders.js:            *)
(* flatten, loadLocale), the intra-file duplicate check (validators.js:    *)
(* extractPhpArrayKeys, findIntraFileDuplicates) and the scan loop of      *)
(* main (index.js).                                                        *)
(*                                                                         *)
(* Text is a sequence of one-character strings; "\n" is the line feed.     *)
(* Regular expressions of the source are operators over such sequences     *)
(* that match what the JavaScript regex matches.                           *)
(***************************************************************************)
EXTENDS Integers, Sequences, FiniteSets, TLC

\* ------------------------------------------------------------------------
\* Character classes of the JavaScript regex engine
\* ------------------------------------------------------------------------
Lower ==
  {"a","b","c","d","e","f","g","h","i","j","k","l","m",
   "n","o","p","q","r","s","t","u","v","w","x","y","z"}

Upper ==
  {"A","B","C","D","E","F","G","H","I","J","K","L","M",
   "N","O","P","Q","R","S","T","U","V","W","X","Y","Z"}

Digit ==
  {"0","1","2","3","4","5","6","7","8","9"}

\* \w
WordChar ==
  Lower \cup Upper \cup Digit \cup {"_"}

\* \s
WhiteSpace ==
  {" ", "\t", "\n", "\r"}

\* the backtick character (the lexer of TLA+ has no escape for it)
Backtick ==
  "BACKTICK"

\* the class of the three quote characters: single, double, backtick
QuoteChar ==
  {"'", "\"", Backtick}

\* ------------------------------------------------------------------------
\* String primitives (String.prototype.*)
\* ------------------------------------------------------------------------
Min(a, b) ==
  IF a < b THEN a ELSE b

\* s.substring(p - 1): the text from 1-based position p on
From(s, p) ==
  SubSeq(s, p, Len(s))

\* s.startsWith(pre, p - 1)
StartsAt(s, p, pre) ==
  /\ p + Len(pre) - 1 <= Len(s)
  /\ \A n \in 1..Len(pre) : s[p + n - 1] = pre[n]

\* s.endsWith(suf)
EndsWith(s, suf) ==
  /\ Len(suf) <= Len(s)
  /\ StartsAt(s, Len(s) - Len(suf) + 1, suf)

\* s.includes(sub)
Includes(s, sub) ==
  \E p \in 1..Len(s) : StartsAt(s, p, sub)

\* first position >= p of a character outside (inside) the class, Len+1 if none
RECURSIVE SkipWhile(_, _, _)
SkipWhile(s, p, class) ==
  IF p <= Len(s) /\ s[p] \in class THEN SkipWhile(s, p + 1, class) ELSE p

RECURSIVE SkipUntil(_, _, _)
SkipUntil(s, p, class) ==
  IF p <= Len(s) /\ s[p] \notin class THEN SkipUntil(s, p + 1, class) ELSE p

\* last position <= p of a character outside the class, 0 if none
RECURSIVE SkipBack(_, _, _)
SkipBack(s, p, class) ==
  IF p >= 1 /\ s[p] \in class THEN SkipBack(s, p - 1, class) ELSE p

\* s.trim()
Trim(s) ==
  SubSeq(s, SkipWhile(s, 1, WhiteSpace), SkipBack(s, Len(s), WhiteSpace))

\* s.toLowerCase(), letter by letter
UpperLetters ==
  <<"A","B","C","D","E","F","G","H","I","J","K","L","M",
    "N","O","P","Q","R","S","T","U","V","W","X","Y","Z">>

LowerLetters ==
  <<"a","b","c","d","e","f","g","h","i","j","k","l","m",
    "n","o","p","q","r","s","t","u","v","w","x","y","z">>

LowerOf(c) ==
  IF c \in Upper
    THEN LowerLetters[CHOOSE n \in 1..Len(UpperLetters) : UpperLetters[n] = c]
    ELSE c

ToLowerCase(s) ==
  [n \in 1..Len(s) |-> LowerOf(s[n])]

\* s.split(LF)
RECURSIVE SplitFrom(_, _, _)
SplitFrom(s, p, cur) ==
  IF p > Len(s) THEN <<cur>>
  ELSE IF s[p] = "\n" THEN <<cur>> \o SplitFrom(s, p + 1, <<>>)
  ELSE SplitFrom(s, p + 1, Append(cur, s[p]))

Split(s) ==
  SplitFrom(s, 1, <<>>)

\* ls.join(LF)
RECURSIVE Join(_)
Join(ls) ==
  IF Len(ls) = 0 THEN <<>>
  ELSE IF Len(ls) = 1 THEN ls[1]
  ELSE ls[1] \o <<"\n">> \o Join(Tail(ls))

\* String(n) for a non-negative integer
DigitChar(d) ==
  CASE d = 0 -> "0" [] d = 1 -> "1" [] d = 2 -> "2" [] d = 3 -> "3"
    [] d = 4 -> "4" [] d = 5 -> "5" [] d = 6 -> "6" [] d = 7 -> "7"
    [] d = 8 -> "8" [] OTHER -> "9"

RECURSIVE NumToString(_)
NumToString(n) ==
  IF n < 10 THEN <<DigitChar(n)>>
  ELSE Append(NumToString(n \div 10), DigitChar(n % 10))

\* number of "\n" in s[1..p-1]: (s.substring(0, index).match(/\n/g) || []).length
NewlinesBefore(s, p) ==
  Cardinality({q \in 1..(p - 1) : s[q] = "\n"})

\* ------------------------------------------------------------------------
\* stripComments
\* ------------------------------------------------------------------------
\* position of the first "*/" at or after p, 0 if there is none
RECURSIVE BlockClose(_, _)
BlockClose(s, p) ==
  IF p + 1 > Len(s) THEN 0
  ELSE IF s[p] = "*" /\ s[p + 1] = "/" THEN p
  ELSE BlockClose(s, p + 1)

\* the replacement that blanks the line feeds as well
BlankOutAll(s) ==
  [n \in 1..Len(s) |-> " "]

\* match.replace(/[^\n]/g, ' ')
BlankOut(s) ==
  [n \in 1..Len(s) |-> IF s[n] = "\n" THEN "\n" ELSE " "]

\* result.replace(/\/\*[\s\S]*?\*\//g, match => match.replace(/[^\n]/g, ' '))
RECURSIVE StripBlockFrom(_, _)
StripBlockFrom(s, p) ==
  IF p > Len(s) THEN <<>>
  ELSE IF StartsAt(s, p, <<"/", "*">>) /\ BlockClose(s, p + 2) # 0
    THEN LET q == BlockClose(s, p + 2)
         IN  BlankOut(SubSeq(s, p, q + 1)) \o StripBlockFrom(s, q + 2)
  ELSE <<s[p]>> \o StripBlockFrom(s, p + 1)

\* the block-comment pass left out
StripBlockCommentsSkipped(s) ==
  s

StripBlockComments(s) ==
  StripBlockFrom(s, 1)

\* result.replace(/<marker>.*$/gm, match => ' '.repeat(match.length))
RECURSIVE StripLineFrom(_, _, _, _)
StripLineFrom(s, p, marker, inComment) ==
  IF p > Len(s) THEN <<>>
  ELSE IF s[p] \in {"\n", "\r"}
    THEN <<s[p]>> \o StripLineFrom(s, p + 1, marker, FALSE)
  ELSE IF inComment \/ StartsAt(s, p, marker)
    THEN <<" ">> \o StripLineFrom(s, p + 1, marker, TRUE)
  ELSE <<s[p]>> \o StripLineFrom(s, p + 1, marker, FALSE)

StripLineComments(s, marker) ==
  StripLineFrom(s, 1, marker, FALSE)

isPhp(filePath) ==
  EndsWith(ToLowerCase(filePath), <<".", "p", "h", "p">>)

isJs(filePath) ==
  LET ext == ToLowerCase(filePath)
  IN  \/ EndsWith(ext, <<".", "j", "s">>)
      \/ EndsWith(ext, <<".", "j", "s", "x">>)
      \/ EndsWith(ext, <<".", "t", "s">>)
      \/ EndsWith(ext, <<".", "t", "s", "x">>)
      \/ EndsWith(ext, <<".", "v", "u", "e">>)

stripComments(content, filePath) ==
  IF ~isPhp(filePath) /\ ~isJs(filePath) THEN content
  ELSE LET blocks == StripBlockComments(content)
           slashes == StripLineComments(blocks, <<"/", "/">>)
       IN  IF isPhp(filePath)
             THEN StripLineComments(slashes, <<"#">>)
             ELSE slashes

\* ------------------------------------------------------------------------
\* extractKeys: the static call patterns
\* ------------------------------------------------------------------------
\* One entry per regex of compiledPatterns.  Every regex has the form
\*   [\b] PREFIX \s* ['"`] ([^'"`]+?) ['"`] [ \s* TERM [\}] ]
\* prefixes: the alternatives of PREFIX; boundary: a leading \b;
\* terms: the class TERM, empty when the regex ends at the closing quote;
\* brace: the regex ends with \}.
compiledPatterns ==
  << [prefixes |-> {<<"_","_","(">>},
      boundary |-> FALSE, terms |-> {",", ")"}, brace |-> FALSE],
     [prefixes |-> {<<"@","l","a","n","g","(">>},
      boundary |-> FALSE, terms |-> {",", ")"}, brace |-> FALSE],
     [prefixes |-> {<<"@","c","h","o","i","c","e","(">>},
      boundary |-> FALSE, terms |-> {","}, brace |-> FALSE],
     [prefixes |-> {<<"t","r","a","n","s","_","c","h","o","i","c","e","(">>},
      boundary |-> FALSE, terms |-> {",", ")"}, brace |-> FALSE],
     [prefixes |-> {<<"t","r","a","n","s","(">>},
      boundary |-> TRUE, terms |-> {",", ")"}, brace |-> FALSE],
     [prefixes |-> {<<"L","a","n","g",":",":","g","e","t","(">>},
      boundary |-> FALSE, terms |-> {",", ")"}, brace |-> FALSE],
     [prefixes |-> {<<"t","(">>},
      boundary |-> TRUE, terms |-> {",", ")"}, brace |-> FALSE],
     [prefixes |-> {<<"u","s","e","P","a","g","e","(",")",".","p","r","o","p","s",
                      ".","_","_","(">>,
                    <<"p","a","g","e",".","p","r","o","p","s",".","_","_","(">>},
      boundary |-> FALSE, terms |-> {}, brace |-> FALSE],
     [prefixes |-> {<<"{","_","_","(">>, <<"{","t","(">>},
      boundary |-> FALSE, terms |-> {",", ")"}, brace |-> TRUE] >>

NoMatch ==
  [ok |-> FALSE, index |-> 0, key |-> <<>>, end |-> 0]

\* \b in front of a word character at p
WordBoundaryAt(buf, p) ==
  p = 1 \/ buf[p - 1] \notin WordChar

\* The match of one pattern that starts exactly at position p, if any.
\* index is the 1-based offset of the match, key the captured group,
\* end the position after the match (regex.lastIndex + 1).
MatchAt(buf, p, pat) ==
  IF ~(\E pf \in pat.prefixes : StartsAt(buf, p, pf)) THEN NoMatch
  ELSE IF pat.boundary /\ ~WordBoundaryAt(buf, p) THEN NoMatch
  ELSE
    LET pf   == CHOOSE x \in pat.prefixes : StartsAt(buf, p, x)
        open == SkipWhile(buf, p + Len(pf), WhiteSpace)
        shut == SkipUntil(buf, open + 1, QuoteChar)
        term == SkipWhile(buf, shut + 1, WhiteSpace)
    IN  IF open > Len(buf) \/ buf[open] \notin QuoteChar THEN NoMatch
        ELSE IF shut > Len(buf) \/ shut = open + 1 THEN NoMatch
        ELSE IF pat.terms = {}
          THEN [ok |-> TRUE, index |-> p,
                key |-> SubSeq(buf, open + 1, shut - 1), end |-> shut + 1]
        ELSE IF term > Len(buf) \/ buf[term] \notin pat.terms THEN NoMatch
        ELSE IF ~pat.brace
          THEN [ok |-> TRUE, index |-> p,
                key |-> SubSeq(buf, open + 1, shut - 1), end |-> term + 1]
        ELSE IF term + 1 > Len(buf) \/ buf[term + 1] # "}" THEN NoMatch
        ELSE [ok |-> TRUE, index |-> p,
              key |-> SubSeq(buf, open + 1, shut - 1), end |-> term + 2]

\* while ((match = regex.exec(buf))): the successive matches of a /g regex
\* (a match starts only at a character that starts a prefix)
RECURSIVE ExecFrom(_, _, _)
ExecFrom(buf, p, pat) ==
  IF p > Len(buf) THEN <<>>
  ELSE IF \A pf \in pat.prefixes : buf[p] # pf[1] THEN ExecFrom(buf, p + 1, pat)
  ELSE LET m == MatchAt(buf, p, pat)
       IN  IF m.ok THEN <<m>> \o ExecFrom(buf, m.end, pat)
           ELSE ExecFrom(buf, p + 1, pat)

ExecAll(buf, pat) ==
  ExecFrom(buf, 1, pat)

\* /^[a-z0-9_]+(\.[a-z0-9_]+)*$/i
isDotNotation(key) ==
  /\ Len(key) > 0
  /\ \A n \in 1..Len(key) : key[n] \in WordChar \cup {"."}
  /\ key[1] # "."
  /\ key[Len(key)] # "."
  /\ \A n \in 1..(Len(key) - 1) : ~(key[n] = "." /\ key[n + 1] = ".")

\* only the interpolation opener is looked for
HasDollarBrace(key) ==
  \E n \in 1..(Len(key) - 1) : key[n] = "$" /\ key[n + 1] = "{"

\* /\$[a-zA-Z_]/
HasDollarName(key) ==
  \E n \in 1..(Len(key) - 1) :
    key[n] = "$" /\ key[n + 1] \in Lower \cup Upper \cup {"_"}

isJsonSentence(key) ==
  /\ Len(key) > 0
  /\ ~HasDollarName(key)
  /\ ~Includes(key, <<Backtick>>)
  /\ key[1] # "{"
  /\ Trim(key) = key

isValidKey(key) ==
  isDotNotation(key) \/ isJsonSentence(key)

\* ------------------------------------------------------------------------
\* extractKeys: the dynamic-key patterns
\* ------------------------------------------------------------------------
\* One entry per regex of dynamicPatterns.  Every regex has the form
\*   [\b] PREFIX \s* ['"`] [^'"`]* \$ [\{]
dynamicPatterns ==
  << [prefix |-> <<"_","_","(">>, boundary |-> FALSE, brace |-> TRUE],
     [prefix |-> <<"_","_","(">>, boundary |-> FALSE, brace |-> FALSE],
     [prefix |-> <<"t","(">>,     boundary |-> TRUE,  brace |-> TRUE] >>

DynamicAt(s, p, pat) ==
  /\ StartsAt(s, p, pat.prefix)
  /\ pat.boundary => WordBoundaryAt(s, p)
  /\ LET open == SkipWhile(s, p + Len(pat.prefix), WhiteSpace)
         shut == SkipUntil(s, open + 1, QuoteChar)
     IN  /\ open <= Len(s)
         /\ s[open] \in QuoteChar
         /\ \E d \in (open + 1)..(shut - 1) :
              /\ s[d] = "$"
              /\ pat.brace => (d + 1 <= Len(s) /\ s[d + 1] = "{")

\* pattern.test(s)
DynamicTest(s, pat) ==
  \E p \in 1..Len(s) : DynamicAt(s, p, pat)

\* ------------------------------------------------------------------------
\* extractKeys: one window of the sliding-window loop
\* ------------------------------------------------------------------------
MAX_LOCATIONS_PER_KEY ==
  100

WINDOW_SIZE ==
  3

\* a window that is one line short
WindowLinesShort(cleanedLines, i) ==
  SubSeq(cleanedLines, i + 1, Min(i + WINDOW_SIZE - 1, Len(cleanedLines)))

\* the window buffer of the 0-based starting line i
WindowLines(cleanedLines, i) ==
  SubSeq(cleanedLines, i + 1, Min(i + WINDOW_SIZE, Len(cleanedLines)))

\* `${key}:${actualLineNum}`
StaticMatchId(key, lineNum) ==
  key \o <<":">> \o NumToString(lineNum)

\* `dynamic:${filePath}:${lineNum}`
DynamicMatchId(filePath, lineNum) ==
  <<"d","y","n","a","m","i","c",":">> \o filePath \o <<":">> \o NumToString(lineNum)

EmptyResults ==
  [keys |-> {}, dynamicKeys |-> <<>>, locations |-> <<>>]

\* lines[n] || ''
LineOr(lines, n) ==
  IF n + 1 <= Len(lines) THEN lines[n + 1] ELSE <<>>

\* results.locations after one accepted match
PushLocation(locations, key, rec) ==
  LET have == IF key \in DOMAIN locations THEN locations[key] ELSE <<>>
      next == IF Len(have) < MAX_LOCATIONS_PER_KEY THEN Append(have, rec) ELSE have
  IN  [k \in DOMAIN locations \cup {key} |-> IF k = key THEN next ELSE locations[k]]

\* the loop body without the processedMatches test
ProcessMatchUnchecked(st, m, i, buf, lines, filePath) ==
  LET key           == Trim(m.key)
      newlineCount  == NewlinesBefore(buf, m.index)
      actualLineNum == i + newlineCount + 1
  IN  IF ~isValidKey(key) THEN st
      ELSE [st EXCEPT
              !.res.keys = @ \cup {key},
              !.res.locations = PushLocation(@, key,
                 [file |-> filePath, line |-> actualLineNum,
                  snippet |-> Trim(LineOr(lines, i + newlineCount))])]

\* the body of the while loop for one match; st = [pm, res]
ProcessMatch(st, m, i, buf, lines, filePath) ==
  LET key           == Trim(m.key)
      newlineCount  == NewlinesBefore(buf, m.index)
      actualLineNum == i + newlineCount + 1
      matchId       == StaticMatchId(key, actualLineNum)
  IN  IF matchId \in st.pm THEN st
      ELSE IF ~isValidKey(key) THEN [st EXCEPT !.pm = @ \cup {matchId}]
      ELSE [pm  |-> st.pm \cup {matchId},
            res |-> [st.res EXCEPT
                       !.keys = @ \cup {key},
                       !.locations = PushLocation(@, key,
                          [file |-> filePath, line |-> actualLineNum,
                           snippet |-> Trim(LineOr(lines, i + newlineCount))])]]

RECURSIVE ProcessMatches(_, _, _, _, _, _)
ProcessMatches(st, ms, i, buf, lines, filePath) ==
  IF ms = <<>> THEN st
  ELSE ProcessMatches(ProcessMatch(st, Head(ms), i, buf, lines, filePath),
                      Tail(ms), i, buf, lines, filePath)

\* precompiled.forEach(...) from pattern n on
RECURSIVE StaticPass(_, _, _, _, _, _)
StaticPass(st, n, i, buf, lines, filePath) ==
  IF n > Len(compiledPatterns) THEN st
  ELSE StaticPass(
         ProcessMatches(st, ExecAll(buf, compiledPatterns[n]), i, buf, lines, filePath),
         n + 1, i, buf, lines, filePath)

\* the for (j) loop of one dynamic pattern, from window line j (0-based) on
RECURSIVE DynamicLines(_, _, _, _, _, _)
DynamicLines(st, pat, j, i, windowLines, filePath) ==
  IF j >= Len(windowLines) THEN st
  ELSE IF ~DynamicTest(windowLines[j + 1], pat)
    THEN DynamicLines(st, pat, j + 1, i, windowLines, filePath)
  ELSE LET lineNum == i + j + 1
           matchId == DynamicMatchId(filePath, lineNum)
       IN  IF matchId \in st.pm
             THEN DynamicLines(st, pat, j + 1, i, windowLines, filePath)
             ELSE [pm  |-> st.pm \cup {matchId},
                   res |-> [st.res EXCEPT !.dynamicKeys = Append(@,
                              [file |-> filePath, line |-> lineNum,
                               snippet |-> Trim(windowLines[j + 1])])]]

\* dynamicPatterns.forEach(...) from pattern n on
RECURSIVE DynamicPass(_, _, _, _, _, _)
DynamicPass(st, n, i, buf, windowLines, filePath) ==
  IF n > Len(dynamicPatterns) THEN st
  ELSE DynamicPass(
         IF DynamicTest(buf, dynamicPatterns[n])
           THEN DynamicLines(st, dynamicPatterns[n], 0, i, windowLines, filePath)
           ELSE st,
         n + 1, i, buf, windowLines, filePath)

\* the body of for (let i = 0; i < lines.length; i++)
WindowStep(st, i, lines, cleanedLines, filePath) ==
  LET windowLines == WindowLines(cleanedLines, i)
      buf         == Join(windowLines)
  IN  DynamicPass(StaticPass(st, 1, i, buf, lines, filePath),
                  1, i, buf, windowLines, filePath)

\* ------------------------------------------------------------------------
\* parseGitignore, isGitignored, matchPattern
\* ------------------------------------------------------------------------
\* s.indexOf(c) as a 1-based position, 0 when c does not occur
IndexOf(s, c) ==
  IF \E n \in 1..Len(s) : s[n] = c
    THEN CHOOSE n \in 1..Len(s) : s[n] = c /\ \A m \in 1..(n - 1) : s[m] # c
    ELSE 0

\* the text of a rule line once the comment is cut off and it is trimmed
RuleText(line) ==
  LET commentIndex == IndexOf(line, "#")
  IN  Trim(IF commentIndex > 1 THEN SubSeq(line, 1, commentIndex - 1) ELSE line)

\* the lines of the file that give a rule: not a comment line, not blank
IsRuleLine(line) ==
  IndexOf(line, "#") # 1 /\ RuleText(line) # <<>>

\* the body of the for loop of parseGitignore for a line that gives a rule
ParseRule(line) ==
  LET text    == RuleText(line)
      negated == StartsAt(text, 1, <<"!">>)
      t1      == IF negated THEN Tail(text) ELSE text
      dirOnly == EndsWith(t1, <<"/">>)
      t2      == IF dirOnly THEN SubSeq(t1, 1, Len(t1) - 1) ELSE t1
      rooted  == StartsAt(t2, 1, <<"/">>)
      t3      == IF rooted THEN Tail(t2) ELSE t2
  IN  [pattern |-> t3, negated |-> negated, dirOnly |-> dirOnly, rooted |-> rooted]

\* const patterns = [] ... patterns.push(...)
RECURSIVE ParseRules(_)
ParseRules(ruleLines) ==
  IF ruleLines = <<>> THEN <<>>
  ELSE IF IsRuleLine(Head(ruleLines))
    THEN <<ParseRule(Head(ruleLines))>> \o ParseRules(Tail(ruleLines))
  ELSE ParseRules(Tail(ruleLines))

\* The positions e such that the regex made from pattern[q..] matches
\* testPath[p..e-1]: "**" is .*, "*" is [^/]*, "?" is [^/], "." is \. and
\* every other character of the rules stands for itself.
RECURSIVE GlobEnds(_, _, _, _)
GlobEnds(testPath, p, pattern, q) ==
  IF q > Len(pattern) THEN {p}
  ELSE IF pattern[q] = "*" /\ q + 1 <= Len(pattern) /\ pattern[q + 1] = "*"
    THEN UNION { GlobEnds(testPath, p2, pattern, q + 2) : p2 \in p..(Len(testPath) + 1) }
  ELSE IF pattern[q] = "*"
    THEN UNION { GlobEnds(testPath, p2, pattern, q + 1) :
                   p2 \in p..SkipUntil(testPath, p, {"/"}) }
  ELSE IF p > Len(testPath) THEN {}
  ELSE IF pattern[q] = "?"
    THEN IF testPath[p] # "/" THEN GlobEnds(testPath, p + 1, pattern, q + 1) ELSE {}
  ELSE IF testPath[p] = pattern[q] THEN GlobEnds(testPath, p + 1, pattern, q + 1)
  ELSE {}

\* pattern === testPath || /^R(\/|$)/.test(testPath) || /^R$/.test(testPath)
matchPattern(testPath, pattern) ==
  \/ pattern = testPath
  \/ \E e \in GlobEnds(testPath, 1, pattern, 1) :
       e = Len(testPath) + 1 \/ testPath[e] = "/"

\* pathParts.slice(n).join(path.sep) for every n: the path and what follows
\* each of its separators
SubPaths(relativePath) ==
  { relativePath } \cup
  { From(relativePath, n + 1) : n \in { m \in 1..Len(relativePath) : relativePath[m] = "/" } }

\* the value of `matched` for one rule; FALSE too when the rule is passed over
RuleMatches(rule, relativePath, isDirectory) ==
  IF rule.dirOnly /\ ~isDirectory THEN FALSE
  ELSE IF rule.rooted THEN matchPattern(relativePath, rule.pattern)
  ELSE \E sub \in SubPaths(relativePath) : matchPattern(sub, rule.pattern)

\* a rule that matches only ever ignores
AfterRuleSticky(ignored, rule, matched) ==
  IF matched THEN ignored \/ ~rule.negated ELSE ignored

\* if (matched) ignored = !negated
AfterRule(ignored, rule, matched) ==
  IF matched THEN ~rule.negated ELSE ignored

\* !relativePath || relativePath.startsWith('..')
OutsideBase(relativePath) ==
  relativePath = <<>> \/ StartsAt(relativePath, 1, <<".", ".">>)

\* ------------------------------------------------------------------------
\* extractParams, extractPlurals
\* A catalog value is [type |-> "string", str |-> text], or
\* [type |-> "object", entries |-> the Object.entries() of the object], or
\* [type |-> "null"].
\* ------------------------------------------------------------------------
\* the characters of \w in ascending order of code unit, as sort() compares
CodeOrder ==
  <<"0","1","2","3","4","5","6","7","8","9",
    "A","B","C","D","E","F","G","H","I","J","K","L","M",
    "N","O","P","Q","R","S","T","U","V","W","X","Y","Z", "_",
    "a","b","c","d","e","f","g","h","i","j","k","l","m",
    "n","o","p","q","r","s","t","u","v","w","x","y","z">>

\* the default comparison of Array.prototype.sort on two names
RECURSIVE NameBefore(_, _)
NameBefore(a, b) ==
  IF a = <<>> THEN b # <<>>
  ELSE IF b = <<>> THEN FALSE
  ELSE IF Head(a) = Head(b) THEN NameBefore(Tail(a), Tail(b))
  ELSE IndexOf(CodeOrder, Head(a)) < IndexOf(CodeOrder, Head(b))

\* Array.from(params).sort()
RECURSIVE SortNames(_)
SortNames(names) ==
  IF names = {} THEN <<>>
  ELSE LET least == CHOOSE a \in names : \A b \in names \ {a} : NameBefore(a, b)
       IN  <<least>> \o SortNames(names \ {least})

\* the (\w+) that follows position p
WordAfter(s, p) ==
  SubSeq(s, p + 1, SkipWhile(s, p + 1, WordChar) - 1)

\* the names matched by /:(\w+)/g
ColonNames(s) ==
  { WordAfter(s, p) : p \in { n \in 1..Len(s) : s[n] = ":" /\ WordAfter(s, n) # <<>> } }

\* the names matched by /\{(\w+)\}/g, names made of digits among them
BraceNamesAll(s) ==
  { WordAfter(s, p) :
      p \in { n \in 1..Len(s) :
                /\ s[n] = "{"
                /\ WordAfter(s, n) # <<>>
                /\ StartsAt(s, n + 1 + Len(WordAfter(s, n)), <<"}">>) } }

\* the names matched by /\{(\w+)\}/g that are not made of digits only
BraceNames(s) ==
  { WordAfter(s, p) :
      p \in { n \in 1..Len(s) :
                /\ s[n] = "{"
                /\ WordAfter(s, n) # <<>>
                /\ StartsAt(s, n + 1 + Len(WordAfter(s, n)), <<"}">>)
                /\ \E m \in 1..Len(WordAfter(s, n)) : WordAfter(s, n)[m] \notin Digit } }

extractParams(text) ==
  IF text.type # "string" THEN <<>>
  ELSE SortNames(ColonNames(text.str) \cup BraceNames(text.str))

\* parseInt(digits, 10)
RECURSIVE ParseInt(_)
ParseInt(digits) ==
  IF digits = <<>> THEN 0
  ELSE 10 * ParseInt(SubSeq(digits, 1, Len(digits) - 1))
         + (IndexOf(CodeOrder, digits[Len(digits)]) - 1)

\* the integer that stands for Infinity: above every parseInt of a catalog
Infinity ==
  2147483647

null ==
  [type |-> "null"]

undefined ==
  [type |-> "undefined"]

\* the (\d+) that follows position p
DigitsAfter(s, p) ==
  SubSeq(s, p + 1, SkipWhile(s, p + 1, Digit) - 1)

\* the match of /\{(\d+)\}/ alone: the range markers are not seen
PluralAtExactOnly(s, p) ==
  LET d1 == DigitsAfter(s, p)
      e1 == p + 1 + Len(d1)
  IN  IF s[p] = "{" /\ d1 # <<>> /\ StartsAt(s, e1, <<"}">>)
        THEN [ok |-> TRUE, end |-> e1 + 1,
              rule |-> [type |-> "exact", value |-> ParseInt(d1)]]
      ELSE [ok |-> FALSE, end |-> p + 1, rule |-> null]

\* the match of /\{(\d+)\}|\[(\d+),(\d+|\*)\]/ that starts at position p:
\* [ok, rule, end]
PluralAt(s, p) ==
  LET d1 == DigitsAfter(s, p)
      e1 == p + 1 + Len(d1)
      d2 == DigitsAfter(s, e1)
      e2 == e1 + 1 + Len(d2)
  IN  IF s[p] = "{" /\ d1 # <<>> /\ StartsAt(s, e1, <<"}">>)
        THEN [ok |-> TRUE, end |-> e1 + 1,
              rule |-> [type |-> "exact", value |-> ParseInt(d1)]]
      ELSE IF s[p] = "[" /\ d1 # <<>> /\ StartsAt(s, e1, <<",">>)
              /\ d2 # <<>> /\ StartsAt(s, e2, <<"]">>)
        THEN [ok |-> TRUE, end |-> e2 + 1,
              rule |-> [type |-> "range", from |-> ParseInt(d1), to |-> ParseInt(d2)]]
      ELSE IF s[p] = "[" /\ d1 # <<>> /\ StartsAt(s, e1, <<",", "*", "]">>)
        THEN [ok |-> TRUE, end |-> e1 + 3,
              rule |-> [type |-> "range", from |-> ParseInt(d1), to |-> Infinity]]
      ELSE [ok |-> FALSE, end |-> p + 1, rule |-> null]

\* the rules of Array.from(text.matchAll(pluralPattern)), from position p on
RECURSIVE PluralRules(_, _)
PluralRules(s, p) ==
  IF p > Len(s) THEN <<>>
  ELSE LET m == PluralAt(s, p)
       IN  (IF m.ok THEN <<m.rule>> ELSE <<>>) \o PluralRules(s, m.end)

extractPlurals(text) ==
  IF text.type # "string" THEN null
  ELSE IF PluralRules(text.str, 1) = <<>> THEN null
  ELSE [rules |-> PluralRules(text.str, 1), raw |-> text.str]

\* ------------------------------------------------------------------------
\* flatten, loadLocale
\* An object is held as the sequence of its Object.entries(): [key, value].
\* ------------------------------------------------------------------------
\* result[key] = value: a key the object has keeps its place
SetProperty(result, key, value) ==
  IF \E n \in 1..Len(result) : result[n].key = key
    THEN [n \in 1..Len(result) |->
            IF result[n].key = key THEN [key |-> key, value |-> value] ELSE result[n]]
    ELSE Append(result, [key |-> key, value |-> value])

RECURSIVE flatten(_, _, _)
flatten(obj, prefix, result) ==
  IF obj = <<>> THEN result
  ELSE LET key     == Head(obj).key
           value   == Head(obj).value
           fullKey == IF prefix # <<>> THEN prefix \o <<".">> \o key ELSE key
       IN  flatten(Tail(obj), prefix,
                   IF value.type = "object"
                     THEN flatten(value.entries, fullKey, result)
                     ELSE SetProperty(result, fullKey, value))

\* entry.replace(/\.php$/, '')
Namespace(entry) ==
  IF EndsWith(entry, <<".","p","h","p">>) THEN SubSeq(entry, 1, Len(entry) - 4) ELSE entry

\* a later definition replaces the value of the entry
DefineLastWins(map, key, value, file) ==
  IF key \notin DOMAIN map
    THEN [k \in DOMAIN map \cup {key} |->
            IF k = key
              THEN [value |-> value, count |-> 1, files |-> <<file>>,
                    params |-> extractParams(value), plurals |-> extractPlurals(value)]
              ELSE map[k]]
    ELSE [map EXCEPT ![key] =
            [value |-> value, count |-> map[key].count + 1,
             files |-> Append(map[key].files, file),
             params |-> extractParams(value), plurals |-> extractPlurals(value)]]

\* a later definition is counted but its file is not kept
DefineUnfiled(map, key, value, file) ==
  IF key \notin DOMAIN map
    THEN [k \in DOMAIN map \cup {key} |->
            IF k = key
              THEN [value |-> value, count |-> 1, files |-> <<file>>,
                    params |-> extractParams(value), plurals |-> extractPlurals(value)]
              ELSE map[k]]
    ELSE [map EXCEPT ![key].count = @ + 1]

\* what JSON.parse does with a text that is no JSON
SyntaxError ==
  [type |-> "SyntaxError"]

\* loadJsonLangFile: JSON.parse(content), and {} when it throws; file.parse
\* is what JSON.parse does with the content of the file
loadJsonLangFile(file) ==
  IF file.parse.type = "SyntaxError" THEN [type |-> "object", entries |-> <<>>]
  ELSE file.parse

\* String(n) of an array index
RECURSIVE Decimal(_)
Decimal(n) ==
  IF n < 10 THEN <<CodeOrder[n + 1]>>
  ELSE Decimal(n \div 10) \o <<CodeOrder[(n % 10) + 1]>>

\* Object.entries(value): [threw, entries]; null and undefined cannot be
\* converted to an object (TypeError), a string has its characters and an
\* array its elements under their indexes, a number or boolean has no entry
ObjectEntries(value) ==
  IF value.type \in {"null", "undefined"} THEN [threw |-> TRUE, entries |-> <<>>]
  ELSE [threw |-> FALSE,
        entries |->
          IF value.type = "object" THEN value.entries
          ELSE IF value.type = "string"
            THEN [n \in 1..Len(value.str) |->
                    [key |-> Decimal(n - 1),
                     value |-> [type |-> "string", str |-> <<value.str[n]>>]]]
          ELSE IF value.type = "array"
            THEN [n \in 1..Len(value.items) |->
                    [key |-> Decimal(n - 1), value |-> value.items[n]]]
          ELSE <<>>]

\* the body of for (const [key, value] of Object.entries(...)) in loadLocale
Define(map, key, value, file) ==
  IF key \notin DOMAIN map
    THEN [k \in DOMAIN map \cup {key} |->
            IF k = key
              THEN [value |-> value, count |-> 1, files |-> <<file>>,
                    params |-> extractParams(value), plurals |-> extractPlurals(value)]
              ELSE map[k]]
    ELSE [map EXCEPT ![key].count = @ + 1, ![key].files = Append(@, file)]

\* ------------------------------------------------------------------------
\* extractPhpArrayKeys, findIntraFileDuplicates
\* ------------------------------------------------------------------------
\* [a-zA-Z0-9_.-]
KeyChar ==
  WordChar \cup {".", "-"}

\* line.match(/^\s*/)[0].length
Indent(line) ==
  SkipWhile(line, 1, WhiteSpace) - 1

\* line.match(keyPattern): [ok, key]
KeyMatch(line) ==
  LET p0     == SkipWhile(line, 1, WhiteSpace)
      quoted == p0 <= Len(line) /\ line[p0] \in QuoteChar
      p1     == IF quoted THEN p0 + 1 ELSE p0
      p2     == SkipWhile(line, p1, KeyChar)
      closed == IF quoted THEN p2 <= Len(line) /\ line[p2] = line[p0] ELSE TRUE
      p3     == SkipWhile(line, IF quoted THEN p2 + 1 ELSE p2, WhiteSpace)
  IN  IF p2 > p1 /\ closed /\ StartsAt(line, p3, <<"=", ">">>)
        THEN [ok |-> TRUE, key |-> SubSeq(line, p1, p2 - 1)]
        ELSE [ok |-> FALSE, key |-> <<>>]

\* (line.match(/\[/g) || []).length, and the same for the closing bracket
CountOf(line, c) ==
  Cardinality({ p \in 1..Len(line) : line[p] = c })

\* (line.match(/array\s*\(/g) || []).length
OpenArrays(line) ==
  Cardinality({ p \in 1..Len(line) :
                  /\ StartsAt(line, p, <<"a","r","r","a","y">>)
                  /\ StartsAt(line, SkipWhile(line, p + 5, WhiteSpace), <<"(">>) })

\* (line.match(/\)\s*[,;]/g) || []).length + (line.match(/\)\s*$/g) || []).length
CloseArrays(line) ==
  Cardinality({ p \in 1..Len(line) :
                  /\ line[p] = ")"
                  /\ SkipWhile(line, p + 1, WhiteSpace) <= Len(line)
                  /\ line[SkipWhile(line, p + 1, WhiteSpace)] \in {",", ";"} })
    + Cardinality({ p \in 1..Len(line) :
                      /\ line[p] = ")"
                      /\ SkipWhile(line, p + 1, WhiteSpace) = Len(line) + 1 })

\* (openBrackets + openArrays) - (closeBrackets + closeArrays)
NetDepth(line) ==
  (CountOf(line, "[") + OpenArrays(line)) - (CountOf(line, "]") + CloseArrays(line))

\* n times: if (pathStack.length > 0) pathStack.pop()
PopFrames(pathStack, n) ==
  IF n <= 0 THEN pathStack
  ELSE IF n >= Len(pathStack) THEN <<>>
  ELSE SubSeq(pathStack, 1, Len(pathStack) - n)

\* pathStack.map(p => p.key).join('.')
RECURSIVE JoinKeys(_)
JoinKeys(pathStack) ==
  IF pathStack = <<>> THEN <<>>
  ELSE IF Len(pathStack) = 1 THEN pathStack[1].key
  ELSE pathStack[1].key \o <<".">> \o JoinKeys(Tail(pathStack))

\* the path of a key that forgets its parents
PathOfLeaf(pathStack, key) ==
  key

\* the full path of a key under the frames of the stack
PathOf(pathStack, key) ==
  IF Len(pathStack) > 0 THEN JoinKeys(pathStack) \o <<".">> \o key ELSE key

\* pathStack after a line that holds a key
AfterKeyLine(pathStack, key, line) ==
  IF NetDepth(line) > 0 THEN Append(pathStack, [key |-> key, indent |-> Indent(line)])
  ELSE IF NetDepth(line) < 0 THEN PopFrames(pathStack, 0 - NetDepth(line))
  ELSE pathStack

\* pathStack after a line that holds no key
AfterPlainLine(pathStack, line) ==
  PopFrames(pathStack, 0 - NetDepth(line))

\* keyMap after keys.forEach: the Map as the sequence of its entries
RECURSIVE GroupByPath(_, _)
GroupByPath(keys, keyMap) ==
  IF keys = <<>> THEN keyMap
  ELSE LET k    == Head(keys)
           occ  == [key |-> k.key, line |-> k.line]
           next == IF \E n \in 1..Len(keyMap) : keyMap[n].path = k.path
                     THEN [n \in 1..Len(keyMap) |->
                             IF keyMap[n].path = k.path
                               THEN [keyMap[n] EXCEPT !.occurrences = Append(@, occ)]
                               ELSE keyMap[n]]
                     ELSE Append(keyMap, [path |-> k.path, occurrences |-> <<occ>>])
       IN  GroupByPath(Tail(keys), next)

\* numbers.sort((a, b) => a - b)
RECURSIVE SortNumbers(_)
SortNumbers(numbers) ==
  IF numbers = <<>> THEN <<>>
  ELSE LET least == CHOOSE n \in 1..Len(numbers) :
                      \A m \in 1..Len(numbers) :
                        numbers[n] < numbers[m] \/ (numbers[n] = numbers[m] /\ n <= m)
       IN  <<numbers[least]>>
             \o SortNumbers(SubSeq(numbers, 1, least - 1)
                              \o SubSeq(numbers, least + 1, Len(numbers)))

\* fullPath.split('.').pop()
LastSegment(fullPath) ==
  LET dots == { p \in 1..Len(fullPath) : fullPath[p] = "." }
  IN  IF dots = {} THEN fullPath
      ELSE From(fullPath, 1 + CHOOSE p \in dots : \A q \in dots : q <= p)

\* the duplicates pushed by keyMap.forEach, from entry n of the Map on
RECURSIVE DuplicatesFrom(_, _)
DuplicatesFrom(keyMap, n) ==
  IF n > Len(keyMap) THEN <<>>
  ELSE (IF Len(keyMap[n].occurrences) > 1
          THEN << [key      |-> LastSegment(keyMap[n].path),
                   fullPath |-> keyMap[n].path,
                   count    |-> Len(keyMap[n].occurrences),
                   lines    |-> SortNumbers([m \in 1..Len(keyMap[n].occurrences) |->
                                               keyMap[n].occurrences[m].line])] >>
          ELSE <<>>)
       \o DuplicatesFrom(keyMap, n + 1)

findIntraFileDuplicates(keys) ==
  DuplicatesFrom(GroupByPath(keys, <<>>), 1)

\* ------------------------------------------------------------------------
\* main: the analysis of the catalogs against the used keys
\* localeMaps is a map from locale to the map loadLocale returned.
\* ------------------------------------------------------------------------
\* the characters of the keys in ascending order of code unit
CodeUnits ==
  <<" ", "$", "(", ")", "*", ",", "-", ".",
    "0","1","2","3","4","5","6","7","8","9", ":",
    "A","B","C","D","E","F","G","H","I","J","K","L","M",
    "N","O","P","Q","R","S","T","U","V","W","X","Y","Z", "[", "]", "_",
    "a","b","c","d","e","f","g","h","i","j","k","l","m",
    "n","o","p","q","r","s","t","u","v","w","x","y","z", "{", "|", "}">>

\* the default comparison of Array.prototype.sort on two strings
RECURSIVE StringBefore(_, _)
StringBefore(a, b) ==
  IF a = <<>> THEN b # <<>>
  ELSE IF b = <<>> THEN FALSE
  ELSE IF Head(a) = Head(b) THEN StringBefore(Tail(a), Tail(b))
  ELSE IndexOf(CodeUnits, Head(a)) < IndexOf(CodeUnits, Head(b))

\* [...].sort() of an array of distinct strings
RECURSIVE SortStrings(_)
SortStrings(strings) ==
  IF strings = {} THEN <<>>
  ELSE LET least == CHOOSE a \in strings : \A b \in strings \ {a} : StringBefore(a, b)
       IN  <<least>> \o SortStrings(strings \ {least})

\* the elements of an array
Elements(array) ==
  { array[n] : n \in 1..Len(array) }

\* localeMaps[locale] || {}
MapOr(localeMaps, loc) ==
  IF loc \in DOMAIN localeMaps THEN localeMaps[loc] ELSE <<>>

\* every used key is taken as missing, whatever the catalog holds
MissingOfAll(map, used) ==
  used

\* usedKeysData.keys.forEach(key => { if (!map[key]) missing.push(key) })
Missing(map, used) ==
  { key \in used : key \notin DOMAIN map }

\* missingByLocale after the loop over CONFIG.LOCALES
MissingByLocale(LOCALES, localeMaps, used) ==
  [loc \in { l \in Elements(LOCALES) : Missing(MapOr(localeMaps, l), used) # {} } |->
     SortStrings(Missing(MapOr(localeMaps, loc), used))]

\* the comparison that looks one way only: what the locale adds is left out
ParityOneWay(baseKeys, localeKeys) ==
  [missingFromLocale |-> SortStrings({ k \in baseKeys : k \notin localeKeys }),
   extraInLocale     |-> <<>>]

\* the two filters of the parity loop, sorted
ParityOf(baseKeys, localeKeys) ==
  [missingFromLocale |-> SortStrings({ k \in baseKeys : k \notin localeKeys }),
   extraInLocale     |-> SortStrings({ k \in localeKeys : k \notin baseKeys })]

\* parity after the loop over CONFIG.LOCALES.slice(1)
Parity(LOCALES, localeMaps) ==
  LET baseKeys == DOMAIN MapOr(localeMaps, LOCALES[1])
      KeysOf(l) == DOMAIN MapOr(localeMaps, l)
  IN  [loc \in { l \in Elements(Tail(LOCALES)) :
                   \/ ParityOf(baseKeys, KeysOf(l)).missingFromLocale # <<>>
                   \/ ParityOf(baseKeys, KeysOf(l)).extraInLocale # <<>> } |->
         ParityOf(baseKeys, KeysOf(loc))]

\* new RegExp(pattern) for patterns made of an optional ^, characters, \. for
\* a dot, . for any character, and an optional $; a pattern whose ( is not
\* closed throws (ok = FALSE)
RECURSIVE Atoms(_)
Atoms(body) ==
  IF body = <<>> THEN <<>>
  ELSE IF Head(body) = "\\" /\ Len(body) >= 2
         THEN <<[any |-> FALSE, char |-> body[2]]>> \o Atoms(SubSeq(body, 3, Len(body)))
  ELSE IF Head(body) = "." THEN <<[any |-> TRUE, char |-> "."]>> \o Atoms(Tail(body))
  ELSE <<[any |-> FALSE, char |-> Head(body)]>> \o Atoms(Tail(body))

RegExp(pattern) ==
  LET atStart == pattern # <<>> /\ Head(pattern) = "^"
      rest    == IF atStart THEN Tail(pattern) ELSE pattern
      atEnd   == rest # <<>> /\ rest[Len(rest)] = "$"
                   /\ (Len(rest) = 1 \/ rest[Len(rest) - 1] # "\\")
      body    == IF atEnd THEN SubSeq(rest, 1, Len(rest) - 1) ELSE rest
  IN  [ok    |-> CountOf(pattern, "(") = CountOf(pattern, ")"),
       start |-> atStart,
       end   |-> atEnd,
       atoms |-> Atoms(body)]

\* regex.test(key): the pattern is searched for anywhere in the key
RegExpTest(regex, key) ==
  \E p \in 1..(Len(key) + 1) :
    /\ regex.start => p = 1
    /\ p + Len(regex.atoms) - 1 <= Len(key)
    /\ regex.end => p + Len(regex.atoms) - 1 = Len(key)
    /\ \A n \in 1..Len(regex.atoms) :
         \/ regex.atoms[n].any /\ key[p + n - 1] # "\n"
         \/ ~regex.atoms[n].any /\ key[p + n - 1] = regex.atoms[n].char

\* the filter whose patterns must match at the start of the key
shouldIgnoreKeyAnchored(CONFIG, key) ==
  \/ key \in Elements(CONFIG.IGNORE_KEYS)
  \/ \E domain \in Elements(CONFIG.IGNORE_DOMAINS) :
       key = domain \/ StartsAt(key, 1, domain \o <<".">>)
  \/ \E pattern \in Elements(CONFIG.IGNORE_PATTERNS) :
       /\ RegExp(pattern).ok
       /\ RegExpTest([RegExp(pattern) EXCEPT !.start = TRUE], key)

\* shouldIgnoreKey: exact keys, domains, patterns; new RegExp that throws is
\* caught and the loop goes to the next pattern
shouldIgnoreKey(CONFIG, key) ==
  \/ key \in Elements(CONFIG.IGNORE_KEYS)
  \/ \E domain \in Elements(CONFIG.IGNORE_DOMAINS) :
       key = domain \/ StartsAt(key, 1, domain \o <<".">>)
  \/ \E pattern \in Elements(CONFIG.IGNORE_PATTERNS) :
       /\ RegExp(pattern).ok
       /\ RegExpTest(RegExp(pattern), key)

\* allLocaleKeys after the loop over CONFIG.LOCALES
AllLocaleKeys(LOCALES, localeMaps) ==
  UNION { DOMAIN MapOr(localeMaps, l) : l \in Elements(LOCALES) }

\* orphans: the two filters and the sort
Orphans(CONFIG, localeMaps, used) ==
  SortStrings({ k \in AllLocaleKeys(CONFIG.LOCALES, localeMaps) :
                  k \notin used /\ ~shouldIgnoreKey(CONFIG, k) })

\* checkDuplicates: per locale the entries whose count is above 1; the order
\* of the array (that of Object.entries) is not kept
checkDuplicates(localeMaps) ==
  [loc \in { l \in DOMAIN localeMaps :
               \E k \in DOMAIN localeMaps[l] : localeMaps[l][k].count > 1 } |->
     { [key |-> k, count |-> localeMaps[loc][k].count, files |-> localeMaps[loc][k].files] :
         k \in { j \in DOMAIN localeMaps[loc] : localeMaps[loc][j].count > 1 } }]

\* array.filter(p => !other.includes(p))
Without(array, other) ==
  LET NotIncluded(p) == p \notin Elements(other)
  IN  SelectSeq(array, NotIncluded)

\* the keys of the base locale paired with the other locales that have them
SharedKeys(localeMaps, baseLoc) ==
  { q \in (DOMAIN MapOr(localeMaps, baseLoc)) \X (DOMAIN localeMaps \ {baseLoc}) :
      q[1] \in DOMAIN localeMaps[q[2]] }

\* checkParameters: the issues pushed; the order of the array is not kept
checkParameters(localeMaps, baseLoc) ==
  LET baseMap == MapOr(localeMaps, baseLoc)
      Issue(k, l) ==
        [key |-> k, locale |-> l,
         baseParams |-> baseMap[k].params, localeParams |-> localeMaps[l][k].params,
         missing |-> Without(baseMap[k].params, localeMaps[l][k].params),
         extra |-> Without(localeMaps[l][k].params, baseMap[k].params)]
  IN  { Issue(q[1], q[2]) :
          q \in { r \in SharedKeys(localeMaps, baseLoc) :
                    \/ Issue(r[1], r[2]).missing # <<>>
                    \/ Issue(r[1], r[2]).extra # <<>> } }

\* checkPluralization: the issues pushed; the order of the array is not kept
checkPluralization(localeMaps, baseLoc) ==
  LET baseMap == MapOr(localeMaps, baseLoc)
      Issue(k, l) ==
        IF localeMaps[l][k].plurals = null
          THEN [key |-> k, locale |-> l, issue |-> "missing_pluralization",
                baseRules |-> baseMap[k].plurals.rules, localeRules |-> <<>>]
          ELSE [key |-> k, locale |-> l, issue |-> "plural_count_mismatch",
                baseRules |-> baseMap[k].plurals.rules,
                localeRules |-> localeMaps[l][k].plurals.rules]
  IN  { Issue(q[1], q[2]) :
          q \in { r \in SharedKeys(localeMaps, baseLoc) :
                    /\ baseMap[r[1]].plurals # null
                    /\ \/ localeMaps[r[2]][r[1]].plurals = null
                       \/ Len(baseMap[r[1]].plurals.rules)
                            # Len(localeMaps[r[2]][r[1]].plurals.rules) } }

\* extractPhpArrayKeys: lines.forEach from line lineNum on
RECURSIVE PhpKeysFrom(_, _, _, _)
PhpKeysFrom(lines, lineNum, pathStack, keys) ==
  IF lineNum >= Len(lines) THEN keys
  ELSE LET line == lines[lineNum + 1]
       IN  IF KeyMatch(line).ok
             THEN PhpKeysFrom(lines, lineNum + 1,
                              AfterKeyLine(pathStack, KeyMatch(line).key, line),
                              Append(keys, [key |-> KeyMatch(line).key, line |-> lineNum + 1,
                                            indent |-> Indent(line),
                                            path |-> PathOf(pathStack, KeyMatch(line).key),
                                            raw |-> Trim(line)]))
             ELSE PhpKeysFrom(lines, lineNum + 1, AfterPlainLine(pathStack, line), keys)

extractPhpArrayKeys(lines) ==
  PhpKeysFrom(lines, 0, <<>>, <<>>)

\* line.match(/^\s*"([^"]+)"\s*:/): [ok, key]
JsonKeyMatch(line) ==
  LET p0 == SkipWhile(line, 1, WhiteSpace)
      p1 == SkipUntil(line, p0 + 1, {"\""})
      p2 == SkipWhile(line, p1 + 1, WhiteSpace)
  IN  IF /\ p0 <= Len(line) /\ line[p0] = "\""
         /\ p1 <= Len(line) /\ p1 > p0 + 1
         /\ p2 <= Len(line) /\ line[p2] = ":"
        THEN [ok |-> TRUE, key |-> SubSeq(line, p0 + 1, p1 - 1)]
        ELSE [ok |-> FALSE, key |-> <<>>]

\* extractJsonKeys: lines.forEach from line lineNum on
RECURSIVE JsonKeysFrom(_, _)
JsonKeysFrom(lines, lineNum) ==
  IF lineNum >= Len(lines) THEN <<>>
  ELSE (IF JsonKeyMatch(lines[lineNum + 1]).ok
          THEN << [key  |-> JsonKeyMatch(lines[lineNum + 1]).key,
                   line |-> lineNum + 1,
                   path |-> JsonKeyMatch(lines[lineNum + 1]).key,
                   raw  |-> Trim(lines[lineNum + 1])] >>
          ELSE <<>>)
       \o JsonKeysFrom(lines, lineNum + 1)

extractJsonKeys(lines) ==
  JsonKeysFrom(lines, 0)

\* checkIntraFileDuplicates: the issues of the .php files of one directory
RECURSIVE DirIssues(_, _)
DirIssues(loc, entries) ==
  IF entries = <<>> THEN <<>>
  ELSE (IF /\ EndsWith(Head(entries).name, <<".","p","h","p">>)
           /\ findIntraFileDuplicates(extractPhpArrayKeys(Head(entries).lines)) # <<>>
          THEN << [locale |-> loc, file |-> Head(entries).name,
                   duplicates |-> findIntraFileDuplicates(extractPhpArrayKeys(Head(entries).lines))] >>
          ELSE <<>>)
       \o DirIssues(loc, Tail(entries))

\* checkIntraFileDuplicates: the issues of the JSON file of a locale
JsonIssues(loc, json) ==
  IF json.exists /\ findIntraFileDuplicates(extractJsonKeys(json.lines)) # <<>>
    THEN << [locale |-> loc, file |-> loc \o <<".","j","s","o","n">>,
             duplicates |-> findIntraFileDuplicates(extractJsonKeys(json.lines))] >>
    ELSE <<>>

\* checkIntraFileDuplicates(config, ...): langTree gives the catalog files of
\* each locale as [single, dir, json]
RECURSIVE checkIntraFileDuplicates(_, _)
checkIntraFileDuplicates(LOCALES, langTree) ==
  IF LOCALES = <<>> THEN <<>>
  ELSE LET loc == Head(LOCALES)
       IN  (IF langTree[loc].dir.exists THEN DirIssues(loc, langTree[loc].dir.entries) ELSE <<>>)
             \o JsonIssues(loc, langTree[loc].json)
             \o checkIntraFileDuplicates(Tail(LOCALES), langTree)

\* exitCode |= flag, on non-negative integers
RECURSIVE BitOr(_, _)
BitOr(a, b) ==
  IF a = 0 THEN b
  ELSE IF b = 0 THEN a
  ELSE (IF a % 2 = 1 \/ b % 2 = 1 THEN 1 ELSE 0) + 2 * BitOr(a \div 2, b \div 2)

EXIT_CODES ==
  [SUCCESS |-> 0, MISSING_TRANSLATIONS |-> 1, PARITY_ISSUES |-> 2, DUPLICATE_KEYS |-> 4,
   PARAMETER_MISMATCHES |-> 8, ORPHAN_KEYS |-> 16, PLURALIZATION_ISSUES |-> 32,
   INTRA_FILE_DUPLICATES |-> 64]

\* ------------------------------------------------------------------------
\* Source texts the scanner is run on
\* ------------------------------------------------------------------------
MaxPad ==
  2

MaxFiles ==
  2

Q ==
  <<"'">>

KeyAB ==
  <<"a", ".", "b">>

KeyPrice ==
  <<"P","r","i","c","e",":"," ","$","9","9">>

KeyUser ==
  <<"U","s","e","r"," ","$","u","s","e","r","n","a","m","e">>

\* the call NAME('key'TAIL on one line
Call1(name, key, tail) ==
  << name \o Q \o key \o Q \o tail >>

\* the same call with the literal on the second line
Call2(name, key, tail) ==
  << name, <<" ", " ">> \o Q \o key \o Q \o tail >>

\* the same call with the closing delimiter on the third line
Call3(name, key, tail) ==
  << name, <<" ", " ">> \o Q \o key \o Q, tail >>

\* the same call with an empty third line and the delimiter on the fourth
Call4(name, key, tail) ==
  << name, <<" ", " ">> \o Q \o key \o Q, <<>>, tail >>

\* the nine call shapes: name, key, text after the closing quote
Shapes ==
  { << <<"_","_","(">>, KeyAB, <<")">> >>,
    << <<"@","l","a","n","g","(">>, <<"k","2">>, <<")">> >>,
    << <<"@","c","h","o","i","c","e","(">>, <<"k","3">>, <<",","2",")">> >>,
    << <<"t","r","a","n","s","_","c","h","o","i","c","e","(">>, <<"k","4">>, <<",","2",")">> >>,
    << <<"t","r","a","n","s","(">>, <<"k","5">>, <<")">> >>,
    << <<"L","a","n","g",":",":","g","e","t","(">>, <<"k","6">>, <<")">> >>,
    << <<"t","(">>, <<"k","7">>, <<")">> >>,
    << <<"p","a","g","e",".","p","r","o","p","s",".","_","_","(">>, <<"k","8">>, <<")">> >>,
    << <<"{","t","(">>, <<"k","9">>, <<")","}">> >> }

DU ==
  <<"_","_","(">>

CallBlocks ==
  UNION { { Call1(sh[1], sh[2], sh[3]), Call2(sh[1], sh[2], sh[3]),
            Call3(sh[1], sh[2], sh[3]), Call4(sh[1], sh[2], sh[3]) } : sh \in Shapes }

CommentBlocks ==
  { << <<"/","*"," ">> \o Call1(DU, KeyAB, <<")">>)[1] \o <<" ","*","/">> >>,
    << <<"/","*">>, Call1(DU, KeyAB, <<")">>)[1], <<"*","/">> >>,
    << <<"/","*">>, DU, Q \o KeyAB \o Q \o <<")">>, <<"*","/">> >>,
    << <<"/","/"," ">> \o Call1(DU, KeyAB, <<")">>)[1] >>,
    << <<"#"," ">> \o Call1(DU, KeyAB, <<")">>)[1] >>,
    << Call1(DU, KeyAB, <<")">>)[1] \o <<" ","/","*"," ","x"," ","*","/">> >> }

ShapeBlocks ==
  { Call1(DU, KeyPrice, <<")">>),
    Call1(DU, KeyUser, <<")">>),
    Call1(DU, <<" ">>, <<")">>),
    Call1(DU, <<"{","x","}">>, <<")">>),
    Call1(DU, <<" ","p"," ">>, <<")">>),
    Call1(DU, <<"a",".",".","b">>, <<")">>),
    Call1(DU, <<"O","k","!">>, <<")">>),
    << DU \o <<Backtick>> \o KeyAB \o <<Backtick>> \o <<")">> >>,
    << DU \o <<"k",")">> >>,
    << DU \o Q \o <<"t"," ">> \o DU \o Q \o <<","," ">> \o KeyAB \o Q \o <<")">> >>,
    << DU \o Q \o <<"t">>, <<" ">> \o DU \o Q \o <<","," ">> \o KeyAB \o Q \o <<")">> >>,
    << Call1(DU, KeyAB, <<")">>)[1] \o <<" ">> \o Call1(DU, KeyAB, <<")">>)[1] >> }

DynamicBlocks ==
  { << DU \o <<"\"","e",".","$","t","\"",")">> >>,
    << DU \o <<Backtick,"e",".","$","{","t","}",Backtick,")">> >>,
    << <<"t","(">> \o <<Backtick,"e",".","$","{","t","}",Backtick,")">> >>,
    << DU \o Q \o <<"m",".">> \o Q \o <<" ","+"," ","k",")">> >> }

Blocks ==
  CallBlocks \cup CommentBlocks \cup ShapeBlocks \cup DynamicBlocks

\* what may follow the block: nothing, or a plain call of the key a.b
Tails ==
  { <<>>, Call1(DU, KeyAB, <<")">>) }

Filler ==
  <<"x", ";">>

Pad(n) ==
  [k \in 1..n |-> Filler]

FilePaths ==
  { <<"v",".","j","s">>, <<"v",".","p","h","p">>, <<"v",".","t","x","t">> }

\* one scanned file: n filler lines, a block, m filler lines, a tail
Texts ==
  { Join(Pad(n) \o b \o Pad(m) \o t) :
      n \in 0..MaxPad, m \in 0..MaxPad, b \in Blocks, t \in Tails }

Files ==
  { [path |-> fp, content |-> c] : fp \in FilePaths, c \in Texts }

\* the files of the trees that hold more than one file
TreeFiles ==
  { [path |-> <<"v",".","j","s">>, content |-> Join(Call1(DU, KeyAB, <<")">>))],
    [path |-> <<"w",".","p","h","p">>,
     content |-> Join(Call2(DU, KeyAB, <<")">>) \o Call1(<<"t","(">>, <<"k","7">>, <<")">>))],
    [path |-> <<"w",".","j","s">>,
     content |-> Join(<< DU \o <<"\"","e",".","$","t","\"",")">> >>)] }

RECURSIVE SeqsOf(_, _)
SeqsOf(S, n) ==
  IF n = 0 THEN { <<>> }
  ELSE LET shorter == SeqsOf(S, n - 1)
       IN  shorter \cup { Append(q, x) : q \in { r \in shorter : Len(r) = n - 1 }, x \in S }

\* the sequences of files that walk() yields
Trees ==
  { <<f>> : f \in Files } \cup SeqsOf(TreeFiles, MaxFiles)

\* lines with a call whose key has a variable part, a call with a currency
\* literal, a plain call and a line without a call
DynamicCallLines ==
  { DU \o <<"\"","e",".","$","t","\"",")">>,
    DU \o <<Backtick,"e",".","$","{","t","}",Backtick,")">>,
    <<"t","(">> \o <<Backtick,"e",".","$","{","t","}",Backtick,")">>,
    Call1(DU, KeyPrice, <<")">>)[1],
    Call1(DU, KeyAB, <<")">>)[1],
    Filler }

\* files of one window or less made of these lines
DynamicFiles ==
  { [path |-> fp, content |-> Join(ls)] :
      fp \in FilePaths, ls \in SeqsOf(DynamicCallLines, WINDOW_SIZE) \ { <<>> } }

\* the calls the fixture marks as dynamic keys (lines 42, 43, 97, 98), each
\* with the braces around it and without the div element and the indentation
FixtureTemplate ==
  <<"{","_","_","(",Backtick,"e","r","r","o","r","s",".","$","{","e","r","r","o","r","T","y","p","e","}",Backtick,")","}">>

FixtureConcatPlus ==
  <<"{","_","_","(","'","m","e","s","s","a","g","e","s",".","'"," ","+"," ","m","e","s","s","a","g","e","K","e","y",")","}">>

FixtureInterpolated ==
  <<"{","{"," ","_","_","(","\"","e","r","r","o","r","s",".","{","$","t","y","p","e","}","\"",")"," ","}","}">>

FixtureConcatDot ==
  <<"{","{"," ","_","_","(","'","s","t","a","t","u","s",".","'"," ","."," ","$","c","u","r","r","e","n","t",")"," ","}","}">>

FixtureDynamicLines ==
  { FixtureTemplate, FixtureConcatPlus, FixtureInterpolated, FixtureConcatDot }

\* two of its calls with a literal key (lines 36, 37)
FixtureStaticLines ==
  { <<"{","_","_","(","'","P","r","o","f","i","l","e","'",")","}">>,
    <<"{","t","(","'","S","e","t","t","i","n","g","s","'",")","}">> }

\* files shorter than a window made of these lines of the fixture
FixtureFiles ==
  { [path |-> <<"i","n","e","r","t","i","a","-","r","e","a","c","t",".","t","s","x">>, content |-> Join(ls)] :
      ls \in SeqsOf(FixtureDynamicLines \cup FixtureStaticLines, WINDOW_SIZE - 1) \ { <<>> } }

\* the names of the nine call shapes, with both alternatives of the eighth
\* and of the ninth regex
ShapeNames ==
  { sh[1] : sh \in Shapes }
    \cup { <<"u","s","e","P","a","g","e","(",")",".","p","r","o","p","s",".","_","_","(">>,
           <<"{","_","_","(">> }

\* what follows the closing quote of the literal: a delimiter, a delimiter
\* after white space, or an expression that continues the literal
ShapeTails ==
  { <<")">>, <<",","2",")">>, <<" "," ",")">>, <<")","}">>,
    <<" ","+"," ","x",")">>, <<" ","."," ","$","x",")">>, <<" ","+"," ","x",")","}">> }

\* one call on one line, or with the literal on the second line and what
\* follows it on the third
ShapeFiles ==
  { [path |-> fp, content |-> Join(c)] :
      fp \in FilePaths,
      c \in UNION { { Call1(n, KeyAB, t), Call3(n, KeyAB, t) } :
                     n \in ShapeNames, t \in ShapeTails } }

\* the index after n files 1.js .. n.js that hold the one line __('a.b') have
\* been merged: n records of the key, one of each file
IndexAfter(n) ==
  [keys        |-> {KeyAB},
   dynamicKeys |-> <<>>,
   locations   |-> [k \in {KeyAB} |->
                      [f \in 1..n |->
                         [file    |-> NumToString(f) \o <<".","j","s">>,
                          line    |-> 1,
                          snippet |-> Call1(DU, KeyAB, <<")">>)[1]]]]]

\* how many files the walk has yielded before the ones of the queue
BulkCounts ==
  { MAX_LOCATIONS_PER_KEY - 1, MAX_LOCATIONS_PER_KEY }

\* ------------------------------------------------------------------------
\* Ignore files and the paths isGitignored is asked about
\* ------------------------------------------------------------------------
MaxRules ==
  2

Build ==
  <<"b","u","i","l","d">>

KeepTxt ==
  Build \o <<"/","k","e","e","p",".","t","x","t">>

OtherTxt ==
  Build \o <<"/","o","t","h","e","r",".","t","x","t">>

ALog ==
  <<"a",".","l","o","g">>

Src ==
  <<"s","r","c","/">>

\* lines of a .gitignore file
GitignoreLineSet ==
  { Build \o <<"/">>,
    <<"!">> \o KeepTxt,
    Build,
    <<"*",".","l","o","g">>,
    <<"!">> \o Src \o ALog \o <<" ","#","x">>,
    <<"/","d","i","s","t">>,
    <<"#","c">>,
    <<"*","*","/","t","m","p","?">> }

\* the calls of the predicate: the path relative to baseDir, and isDirectory
GitignoreCalls ==
  { <<Build, TRUE>>, <<KeepTxt, FALSE>>, <<OtherTxt, FALSE>>,
    <<ALog, FALSE>>, <<Src \o ALog, FALSE>>,
    <<<<"d","i","s","t">>, TRUE>>, <<Src \o <<"d","i","s","t">>, TRUE>>,
    <<Src \o <<"x","/","t","m","p","1">>, TRUE>>,
    <<<<>>, TRUE>>, <<<<".",".","/","x">>, FALSE>> }

\* ------------------------------------------------------------------------
\* Catalog files loadLocale is run on
\* ------------------------------------------------------------------------
MaxNsFiles ==
  2

locale ==
  <<"e","n">>

Str(text) ==
  [type |-> "string", str |-> text]

Obj(entries) ==
  [type |-> "object", entries |-> entries]

Pair(key, value) ==
  [key |-> key, value |-> value]

NoFile ==
  [exists |-> FALSE, data |-> <<>>]

FileOf(data) ==
  [exists |-> TRUE, data |-> data]

\* what lang/en.php decodes to, when the file is there
SinglePhpFiles ==
  { NoFile,
    FileOf(<< Pair(<<"a","u","t","h">>, Obj(<< Pair(<<"f","a","i","l","e","d">>, Str(<<"H","i"," ",":","n","a","m","e">>)) >>)) >>),
    FileOf(<< Pair(<<"a","u","t","h",".","f","a","i","l","e","d">>, Str(<<"{","0","}"," ","n","o","n","e","|","[","1",",","*","]"," ","m","a","n","y">>)),
              Pair(<<"o","k">>, Str(<<"O","k">>)) >>),
    FileOf(<< Pair(<<"a","u","t","h">>, Obj(<< Pair(<<"f","a","i","l","e","d">>, Str(<<"A"," ","{","b","}">>)) >>)),
              Pair(<<"a","u","t","h",".","f","a","i","l","e","d">>, Str(<<"B">>)) >>) }

\* the files lang/en/ may hold: the name and what the file decodes to
DirFiles ==
  { [name |-> <<"a","u","t","h",".","p","h","p">>, data |-> << Pair(<<"f","a","i","l","e","d">>, Str(<<"N","o"," ",":","i","d">>)) >>],
    [name |-> <<"a","u","t","h",".","p","h","p">>,
     data |-> << Pair(<<"f","a","i","l","e","d">>, Str(<<"H","i"," ",":","n","a","m","e">>)),
                 Pair(<<"t","h","r","o","t","t","l","e">>, Str(<<"{","0","}"," ","a","|","{","1","}"," ","b">>)) >>],
    [name |-> <<"w","e","b",".","p","h","p">>, data |-> << Pair(<<"t","i","t","l","e">>, Str(<<"T">>)) >>],
    [name |-> <<"n","o","t","e","s",".","t","x","t">>, data |-> <<>>] }

\* fs.readdirSync(phpDir): no two entries of a directory share a name
DirListings ==
  { ls \in SeqsOf(DirFiles, MaxNsFiles) :
      \A m, n \in 1..Len(ls) : m # n => ls[m].name # ls[n].name }

PhpDirs ==
  { [exists |-> FALSE, entries |-> <<>>] }
    \cup { [exists |-> TRUE, entries |-> ls] : ls \in DirListings }

\* what lang/en.json parses to, when the file is there
JsonFileOf(value) ==
  [exists |-> TRUE, parse |-> value]

JsonFiles ==
  { NoFile,
    JsonFileOf(Obj(<< Pair(<<"a","u","t","h",".","f","a","i","l","e","d">>, Str(<<"J"," ",":","x">>)) >>)),
    JsonFileOf(Obj(<< Pair(<<"W","e","l","c","o","m","e"," ","b","a","c","k">>, Str(<<"W">>)),
                      Pair(<<"a","u","t","h">>, Obj(<< Pair(<<"f","a","i","l","e","d">>, Str(<<"n">>)) >>)) >>)) }

\* lang/en.json with a content that is no JSON, or the JSON of a value that
\* is no object: null, 5, true, "ok", ["x"]
OtherJsonFiles ==
  { JsonFileOf(SyntaxError),
    JsonFileOf(null),
    JsonFileOf([type |-> "number", num |-> 5]),
    JsonFileOf([type |-> "boolean", bool |-> TRUE]),
    JsonFileOf(Str(<<"o","k">>)),
    JsonFileOf([type |-> "array", items |-> << Str(<<"x">>) >>]) }

\* ------------------------------------------------------------------------
\* Catalog texts the duplicate check is run on
\* ------------------------------------------------------------------------
MaxBlocks ==
  2

\* runs of lines of an array-literal catalog file
PhpBlocks ==
  { << <<" "," ","'","a","'"," ","=",">"," ","[">>, <<" "," "," "," ","'","b","'"," ","=",">"," ","'","x","'",",">>, <<" "," ","]",",">> >>,
    << <<" "," ","'","a","'"," ","=",">"," ","a","r","r","a","y","(">>, <<" "," "," "," ","'","b","'"," ","=",">"," ","1",",">>, <<" "," ",")",",">> >>,
    << <<" "," ","\"","a","\""," ","=",">"," ","[">>, <<" "," "," "," ","'","c","'"," ","=",">"," ","[">>, <<" "," "," "," "," "," ","'","b","'"," ","=",">"," ","'","x","'",",">>, <<" "," "," "," ","]",",">>, <<" "," ","]",",">> >>,
    << <<" "," ","'","c","'"," ","=",">"," ","'","z","'",",">> >>,
    << <<" "," ","'","a","'"," ","=",">"," ","'","q","'",",">> >>,
    << <<" "," ","'","d","'"," ","=",">"," ","[","'","p","'",","," ","'","q","'","]",",">>, <<" "," ","b"," ","=",">"," ","2",",">> >>,
    << <<" "," ","'","a",".","b","'"," ","=",">"," ","'","w","'",",">> >>,
    << <<" "," ","'","e","'"," ","=",">"," ","'","x","]","'",",">>, <<" "," ","/","/"," ","n","o","t","e">> >> }

RECURSIVE Concat(_)
Concat(blocks) ==
  IF blocks = <<>> THEN <<>> ELSE Head(blocks) \o Concat(Tail(blocks))

\* the lines of one catalog file: the opening, some blocks, the closing
PhpFiles ==
  { << <<"<","?","p","h","p">>, <<"r","e","t","u","r","n"," ","[">> >> \o Concat(bs) \o << <<"]",";">> >> :
      bs \in SeqsOf(PhpBlocks, MaxBlocks) }

\* runs of lines in which a nested array is closed on a line of its own,
\* on the line of its last key, or holds a value with a bracket in it
StackBlocks ==
  { << <<" "," ","'","a","'"," ","=",">"," ","[">>, <<" "," "," "," ","'","b","'"," ","=",">"," ","'","x","'",",">>, <<" "," ","]",",">> >>,
    << <<" "," ","'","a","'"," ","=",">"," ","[">>, <<" "," "," "," ","'","b","'"," ","=",">"," ","1","]",",">> >>,
    << <<" "," ","'","d","'"," ","=",">"," ","[","'","p","'",","," ","'","q","'","]",",">>, <<" "," ","'","b","'"," ","=",">"," ","2",",">> >>,
    << <<" "," ","'","f","'"," ","=",">"," ","[">>, <<" "," "," "," ","'","g","'"," ","=",">"," ","[">>, <<" "," "," "," "," "," ","'","e","'"," ","=",">"," ","'","x","]","'",",">>, <<" "," "," "," ","]",",">>, <<" "," "," "," ","'","h","'"," ","=",">"," ","1",",">>, <<" "," ","]",",">> >>,
    << <<" "," ","'","f","'"," ","=",">"," ","[">>, <<" "," "," "," ","'","g","'"," ","=",">"," ","[">>, <<" "," "," "," "," "," ","'","b","'"," ","=",">"," ","1",",">>, <<" "," "," "," ","]",",">>, <<" "," "," "," ","'","h","'"," ","=",">"," ","1",",">>, <<" "," ","]",",">> >> }

StackFiles ==
  { << <<"<","?","p","h","p">>, <<"r","e","t","u","r","n"," ","[">> >> \o Concat(bs) \o << <<"]",";">> >> :
      bs \in SeqsOf(StackBlocks, MaxBlocks) }

\* ------------------------------------------------------------------------
\* Projects main is run on: the configuration, the catalog files of each
\* locale (their lines and what they decode to), the keys the scan found
\* ------------------------------------------------------------------------
MaxLocales ==
  2

LocaleNames ==
  << <<"e","n">>, <<"a","r">>, <<"f","r">>, <<"d","e">> >>

AuthFailed ==
  <<"a","u","t","h",".","f","a","i","l","e","d">>

WelcomeBack ==
  <<"W","e","l","c","o","m","e"," ","b","a","c","k">>

PasswordsReset ==
  <<"p","a","s","s","w","o","r","d","s",".","r","e","s","e","t">>

NavHome ==
  <<"n","a","v",".","h","o","m","e">>

AuthPhp ==
  [name  |-> <<"a","u","t","h",".","p","h","p">>,
   lines |-> << <<"<","?","p","h","p">>,
                 <<"r","e","t","u","r","n"," ","[">>,
                 <<" "," ","'","f","a","i","l","e","d","'"," ","=",">"," ","'","H","i"," ",":","n","a","m","e","'",",">>,
                 <<"]",";">> >>,
   data  |-> << Pair(<<"f","a","i","l","e","d">>, Str(<<"H","i"," ",":","n","a","m","e">>)) >>]

\* 'failed' is written twice: the file decodes to the second value
AuthPhpTwice ==
  [name  |-> <<"a","u","t","h",".","p","h","p">>,
   lines |-> << <<"<","?","p","h","p">>,
                 <<"r","e","t","u","r","n"," ","[">>,
                 <<" "," ","'","f","a","i","l","e","d","'"," ","=",">"," ","'","H","i","'",",">>,
                 <<" "," ","'","f","a","i","l","e","d","'"," ","=",">"," ","'","{","0","}"," ","a","|","{","1","}"," ","b"," ",":","i","d","'",",">>,
                 <<"]",";">> >>,
   data  |-> << Pair(<<"f","a","i","l","e","d">>, Str(<<"{","0","}"," ","a","|","{","1","}"," ","b"," ",":","i","d">>)) >>]

AuthPhpPlural ==
  [name  |-> <<"a","u","t","h",".","p","h","p">>,
   lines |-> << <<"<","?","p","h","p">>,
                 <<"r","e","t","u","r","n"," ","[">>,
                 <<" "," ","'","f","a","i","l","e","d","'"," ","=",">"," ","'","{","0","}"," ","n","|","{","1","}"," ","o","|","[","2",",","*","]"," ","m"," ",":","n","a","m","e","'",",">>,
                 <<"]",";">> >>,
   data  |-> << Pair(<<"f","a","i","l","e","d">>, Str(<<"{","0","}"," ","n","|","{","1","}"," ","o","|","[","2",",","*","]"," ","m"," ",":","n","a","m","e">>)) >>]

PasswordsPhp ==
  [name  |-> <<"p","a","s","s","w","o","r","d","s",".","p","h","p">>,
   lines |-> << <<"<","?","p","h","p">>,
                 <<"r","e","t","u","r","n"," ","[">>,
                 <<" "," ","'","r","e","s","e","t","'"," ","=",">"," ","'","R","'",",">>,
                 <<"]",";">> >>,
   data  |-> << Pair(<<"r","e","s","e","t">>, Str(<<"R">>)) >>]

NoJson ==
  [exists |-> FALSE, lines |-> <<>>, data |-> <<>>]

WelcomeJson ==
  [exists |-> TRUE,
   lines  |-> << <<"{">>,
                 <<" "," ","\"","W","e","l","c","o","m","e"," ","b","a","c","k","\"",":"," ","\"","W","\"">>,
                 <<"}">> >>,
   data   |-> << Pair(<<"W","e","l","c","o","m","e"," ","b","a","c","k">>, Str(<<"W">>)) >>]

\* defines auth.failed a second time, after auth.php
BothJson ==
  [exists |-> TRUE,
   lines  |-> << <<"{">>,
                 <<" "," ","\"","a","u","t","h",".","f","a","i","l","e","d","\"",":"," ","\"","J","\"",",">>,
                 <<" "," ","\"","W","e","l","c","o","m","e"," ","b","a","c","k","\"",":"," ","\"","W","\"">>,
                 <<"}">> >>,
   data   |-> << Pair(<<"a","u","t","h",".","f","a","i","l","e","d">>, Str(<<"J">>)), Pair(<<"W","e","l","c","o","m","e"," ","b","a","c","k">>, Str(<<"W">>)) >>]

\* "Welcome back" is written twice: JSON.parse keeps the second value
TwiceJson ==
  [exists |-> TRUE,
   lines  |-> << <<"{">>,
                 <<" "," ","\"","W","e","l","c","o","m","e"," ","b","a","c","k","\"",":"," ","\"","A","\"",",">>,
                 <<" "," ","\"","W","e","l","c","o","m","e"," ","b","a","c","k","\"",":"," ","\"","B","\"">>,
                 <<"}">> >>,
   data   |-> << Pair(<<"W","e","l","c","o","m","e"," ","b","a","c","k">>, Str(<<"B">>)) >>]

CatalogOf(entries, json) ==
  [single |-> NoFile, dir |-> [exists |-> entries # <<>>, entries |-> entries], json |-> json]

\* the catalog files one locale may have
AuditCatalogs ==
  { CatalogOf(<<>>, NoJson),
    CatalogOf(<<AuthPhp>>, WelcomeJson),
    CatalogOf(<<AuthPhpTwice, PasswordsPhp>>, NoJson),
    CatalogOf(<<AuthPhp>>, NoJson) }

Catalogs ==
  AuditCatalogs
    \cup { CatalogOf(<<AuthPhp>>, BothJson),
           CatalogOf(<<AuthPhpPlural>>, TwiceJson) }

\* "auth.failed" and the sentence "Done." are each written twice
DottedJson ==
  [exists |-> TRUE,
   lines  |-> << <<"{">>,
                 <<" "," ","\"","a","u","t","h",".","f","a","i","l","e","d","\"",":"," ","\"","A","\"",",">>,
                 <<" "," ","\"","D","o","n","e",".","\"",":"," ","\"","B","\"",",">>,
                 <<" "," ","\"","a","u","t","h",".","f","a","i","l","e","d","\"",":"," ","\"","C","\"",",">>,
                 <<" "," ","\"","D","o","n","e",".","\"",":"," ","\"","D","\"">>,
                 <<"}">> >>,
   data   |-> << Pair(<<"a","u","t","h",".","f","a","i","l","e","d">>, Str(<<"C">>)), Pair(<<"D","o","n","e",".">>, Str(<<"D">>)) >>]

\* the flat file <locale>.php in which 'failed' is written twice
FlatPhpTwice ==
  [exists |-> TRUE,
   lines  |-> << <<"<","?","p","h","p">>,
                 <<"r","e","t","u","r","n"," ","[">>,
                 <<" "," ","'","f","a","i","l","e","d","'"," ","=",">"," ","'","H","i","'",",">>,
                 <<" "," ","'","f","a","i","l","e","d","'"," ","=",">"," ","'","H","o","'",",">>,
                 <<"]",";">> >>,
   data   |-> << Pair(<<"f","a","i","l","e","d">>, Str(<<"H","o">>)) >>]

\* the catalog files of a locale, the flat file among them
FileCatalogs ==
  { CatalogOf(<<AuthPhp>>, NoJson),
    CatalogOf(<<AuthPhpTwice, PasswordsPhp>>, TwiceJson),
    CatalogOf(<<AuthPhp>>, DottedJson),
    [CatalogOf(<<>>, WelcomeJson) EXCEPT !.single = FlatPhpTwice],
    [CatalogOf(<<AuthPhpTwice>>, NoJson) EXCEPT !.single = FlatPhpTwice] }

\* CONFIG.LOCALES: the first MaxLocales names in every order without
\* repetition, and the base locale given twice
LocaleLists ==
  { ls \in SeqsOf({ LocaleNames[n] : n \in 1..MaxLocales }, MaxLocales) :
      /\ ls # <<>>
      /\ \A m, n \in 1..Len(ls) : m # n => ls[m] # ls[n] }
    \cup { << LocaleNames[1], LocaleNames[1] >> }

\* the keys the scan may have found
UsedKeySets ==
  { {}, {AuthFailed, WelcomeBack}, {PasswordsReset, NavHome} }

\* ignoreKeys, ignoreDomains, ignorePatterns of the configuration file
IgnoreLists ==
  { [keys |-> <<>>, domains |-> <<>>, patterns |-> <<>>],
    [keys |-> <<WelcomeBack>>, domains |-> << <<"p","a","s","s","w","o","r","d","s">> >>, patterns |-> <<>>],
    [keys |-> <<>>, domains |-> << <<"a","u","t","h">>, <<"W","e","l","c","o","m","e">> >>, patterns |-> <<>>],
    [keys |-> <<>>, domains |-> <<>>, patterns |-> << <<"(">>, <<"r","e","s","e","t","$">> >>],
    [keys |-> <<>>, domains |-> <<>>, patterns |-> << <<"^","a","u","t","h","\\",".">>, <<"b","a",".","k">> >>] }

\* ------------------------------------------------------------------------
\* Catalog values extractParams and extractPlurals are called with
\* ------------------------------------------------------------------------
MaxParts ==
  2

\* pieces of translation texts: placeholders, plural markers and near misses
Fragments ==
  { <<":","n","a","m","e">>,
    <<"{","c","o","u","n","t","}">>,
    <<"{","0","}">>,
    <<"{","1","}">>,
    <<"[","1",",","1","]">>,
    <<"[","2",",","*","]">>,
    <<" ","n","o","n","e","|">>,
    <<":">>,
    <<"{">>,
    <<"}">>,
    <<":","b","2"," ">>,
    <<"{","x","_","1","}">>,
    <<"[","1",",">>,
    <<"{","1","2","}">>,
    <<":","9">>,
    <<"[","1","0",",","2","0","]">>,
    <<"{","}">>,
    <<"[","*",",","2","]">>,
    <<"{","a"," ","b","}">>,
    <<"H","i"," ">> }

RECURSIVE Flatten(_)
Flatten(parts) ==
  IF parts = <<>> THEN <<>> ELSE Head(parts) \o Flatten(Tail(parts))

\* the example of the pluralization syntax
PluralExample ==
  <<"{","0","}"," ","n","o","n","e","|","[","1",",","1","]"," ","o","n","e","|","[","2",",","*","]"," ","m","a","n","y">>

\* a text with both placeholder forms and a plural marker
ParamExample ==
  <<":","n","a","m","e",","," ","{","c","o","u","n","t","}"," ","o","f"," ","{","0","}"," ",":","n","a","m","e">>

ValueTexts ==
  { Flatten(parts) : parts \in SeqsOf(Fragments, MaxParts) }
    \cup { PluralExample, ParamExample }

\* values of a decoded catalog that are no strings
NonStrings ==
  { null, Obj(<<>>), Obj(<< Pair(<<"a">>, Str(<<":","n","a","m","e">>)) >>),
    [type |-> "number", num |-> 5], [type |-> "boolean", bool |-> TRUE] }

Values ==
  { Str(t) : t \in ValueTexts } \cup NonStrings

\* ------------------------------------------------------------------------
\* Values extractKeys is called with as content
\* ------------------------------------------------------------------------
CallTexts ==
  { Join(b \o t) : b \in Blocks, t \in Tails }

Contents ==
  { Str(t) : t \in CallTexts } \cup NonStrings \cup { undefined }

\* the file paths of a call: the three file types and the default ''
CallPaths ==
  FilePaths \cup { <<>> }

\* ------------------------------------------------------------------------
\* State
\* ------------------------------------------------------------------------
VARIABLES
  queue,            \* the files walk() has still to yield
  pc,               \* where main stands: "idle", "scan", "mergeKeys", "mergeLocations"
  filePath,         \* extractKeys: filePath
  content,          \* extractKeys: content
  lines,            \* extractKeys: lines
  cleanedLines,     \* extractKeys: cleanedLines
  i,                \* extractKeys: the window index i
  results,          \* extractKeys: results
  processedMatches, \* extractKeys: processedMatches
  usedKeysData,     \* main: usedKeysData
  filesScanned      \* main: filesScanned

VARIABLES
  gitignoreLines,   \* parseGitignore: lines
  patterns,         \* parseGitignore: patterns
  relativePath,     \* isGitignored: relativePath
  isDirectory,      \* isGitignored: isDirectory
  ruleIndex,        \* isGitignored: the rule the for loop stands at
  ignored,          \* isGitignored: ignored
  gitPc             \* "parse", "call", "rules", "returned"

VARIABLES
  langDir,          \* the catalog files of the locale: [single, dir, json]
  map,              \* loadLocale: map
  flat,             \* loadLocale: the Object.entries() still to be looped over
  entry,            \* loadLocale: the file the entries come from
  dirEntries,       \* loadLocale: what is left of fs.readdirSync(phpDir)
  loadPc            \* "single", "singleLoop", "dir", "dirLoop", "json", "jsonLoop", "returned"

VARIABLES
  phpLines,         \* extractPhpArrayKeys: lines
  lineNum,          \* extractPhpArrayKeys: lineNum
  pathStack,        \* extractPhpArrayKeys: pathStack
  keys,             \* extractPhpArrayKeys: keys
  duplicates,       \* findIntraFileDuplicates: duplicates
  dupPc             \* "lines", "done"

VARIABLES
  CONFIG,              \* main: CONFIG
  langTree,            \* the catalog files under CONFIG.LANG_DIR, per locale
  localeMaps,          \* main: localeMaps
  missingByLocale,     \* main: missingByLocale
  parity,              \* main: parity
  duplicateKeys,       \* main: duplicates
  paramIssues,         \* main: paramIssues
  pluralIssues,        \* main: pluralIssues
  intraFileDuplicates, \* main: intraFileDuplicates
  orphans,             \* main: orphans
  exitCode,            \* main: exitCode
  output,              \* main: the output object printed as JSON, [printed, success, exitCode]
  processExit,         \* process.exit: [called, code]
  mainPc               \* the block of main that runs next

VARIABLES
  input,            \* extractParams, extractPlurals: the argument text
  params,           \* what extractParams(text) returned
  plurals,          \* what extractPlurals(text) returned
  valuePc           \* "params", "plurals", "done"

VARIABLES
  argument,         \* extractKeys called on its own: the value passed as content
  cleanedContent    \* extractKeys: what stripComments(content, filePath) returned

VARIABLES
  pendingSignals,   \* the signals delivered to the process and not yet dispatched
  isShuttingDown    \* main: isShuttingDown

VARIABLES
  walkArgs,         \* walk: the file tree and the arguments dir, visited, gitignoreMatcher
  walkStack,        \* walk: the generator frames of the nested calls, [dir, list, index, entered]
  visited,          \* walk: the Set visited
  yielded,          \* walk: the file paths yielded so far, in order
  listed,           \* walk: the real paths readdirSync has listed so far, in order
  walkPc            \* "off", "walking", "done"

scanVars ==
  <<queue, pc, filePath, content, lines, cleanedLines, i, results,
    processedMatches, usedKeysData, filesScanned>>

gitVars ==
  <<gitignoreLines, patterns, relativePath, isDirectory, ruleIndex, ignored, gitPc>>

loadVars ==
  <<langDir, map, flat, entry, dirEntries, loadPc>>

dupVars ==
  <<phpLines, lineNum, pathStack, keys, duplicates, dupPc>>

valueVars ==
  <<input, params, plurals, valuePc>>

mainVars ==
  <<CONFIG, langTree, localeMaps, missingByLocale, parity, duplicateKeys, paramIssues,
    pluralIssues, intraFileDuplicates, orphans, exitCode, output, processExit, mainPc>>

callVars ==
  <<argument, cleanedContent>>

signalVars ==
  <<pendingSignals, isShuttingDown>>

walkVars ==
  <<walkArgs, walkStack, visited, yielded, listed, walkPc>>

restVars ==
  <<valueVars, callVars, signalVars, walkVars>>

vars ==
  <<scanVars, gitVars, loadVars, dupVars, mainVars, restVars>>

\* the parts of the program a specification leaves at rest
ScanIdle ==
  /\ queue = <<>>
  /\ pc = "off"
  /\ filePath = <<>>
  /\ content = <<>>
  /\ lines = <<>>
  /\ cleanedLines = <<>>
  /\ i = 0
  /\ results = EmptyResults
  /\ processedMatches = {}
  /\ usedKeysData = EmptyResults
  /\ filesScanned = 0

GitIdle ==
  /\ gitignoreLines = <<>>
  /\ patterns = <<>>
  /\ relativePath = <<>>
  /\ isDirectory = FALSE
  /\ ruleIndex = 0
  /\ ignored = FALSE
  /\ gitPc = "off"

LoadIdle ==
  /\ langDir = [single |-> NoFile, dir |-> [exists |-> FALSE, entries |-> <<>>],
                json |-> NoFile]
  /\ map = <<>>
  /\ flat = <<>>
  /\ entry = <<>>
  /\ dirEntries = <<>>
  /\ loadPc = "off"

DupIdle ==
  /\ phpLines = <<>>
  /\ lineNum = 0
  /\ pathStack = <<>>
  /\ keys = <<>>
  /\ duplicates = <<>>
  /\ dupPc = "off"

ValueIdle ==
  /\ input = null
  /\ params = <<>>
  /\ plurals = null
  /\ valuePc = "off"

NoOutput ==
  [printed |-> FALSE, success |-> FALSE, exitCode |-> 0]

NotExited ==
  [called |-> FALSE, code |-> 0]

MainIdle ==
  /\ CONFIG = <<>>
  /\ langTree = <<>>
  /\ localeMaps = <<>>
  /\ missingByLocale = <<>>
  /\ parity = <<>>
  /\ duplicateKeys = <<>>
  /\ paramIssues = {}
  /\ pluralIssues = {}
  /\ intraFileDuplicates = <<>>
  /\ orphans = <<>>
  /\ exitCode = 0
  /\ output = NoOutput
  /\ processExit = NotExited
  /\ mainPc = "off"

CallIdle ==
  argument = undefined /\ cleanedContent = undefined

SignalIdle ==
  /\ pendingSignals = <<>>
  /\ isShuttingDown = FALSE

WalkIdle ==
  /\ walkArgs = <<>>
  /\ walkStack = <<>>
  /\ visited = {}
  /\ yielded = <<>>
  /\ listed = <<>>
  /\ walkPc = "off"

RestIdle ==
  ValueIdle /\ CallIdle /\ SignalIdle /\ WalkIdle

\* ------------------------------------------------------------------------
\* The scan loop of main and the window loop of extractKeys
\* ------------------------------------------------------------------------
InitScan ==
  /\ queue \in Trees
  /\ pc = "idle"
  /\ filePath = <<>>
  /\ content = <<>>
  /\ lines = <<>>
  /\ cleanedLines = <<>>
  /\ i = 0
  /\ results = EmptyResults
  /\ processedMatches = {}
  /\ usedKeysData = EmptyResults
  /\ filesScanned = 0
  /\ GitIdle /\ LoadIdle /\ DupIdle /\ MainIdle /\ RestIdle

\* main: the next file of the walk is read and extractKeys is entered
ReadFile ==
  /\ pc = "idle"
  /\ queue # <<>>
  /\ LET file == Head(queue)
     IN  /\ filePath' = file.path
         /\ content' = file.content
         /\ lines' = Split(file.content)
         /\ cleanedLines' = Split(stripComments(file.content, file.path))
  /\ i' = 0
  /\ results' = EmptyResults
  /\ processedMatches' = {}
  /\ filesScanned' = filesScanned + 1
  /\ pc' = "scan"
  /\ UNCHANGED <<queue, usedKeysData>>
  /\ UNCHANGED <<gitVars, loadVars, dupVars, mainVars, restVars>>

\* extractKeys: one iteration of the window loop
Window ==
  /\ pc = "scan"
  /\ i < Len(lines)
  /\ LET st == WindowStep([pm |-> processedMatches, res |-> results],
                          i, lines, cleanedLines, filePath)
     IN  /\ processedMatches' = st.pm
         /\ results' = st.res
  /\ i' = i + 1
  /\ UNCHANGED <<queue, pc, filePath, content, lines, cleanedLines,
                 usedKeysData, filesScanned>>
  /\ UNCHANGED <<gitVars, loadVars, dupVars, mainVars, restVars>>

\* extractKeys returns results
Return ==
  /\ pc = "scan"
  /\ i >= Len(lines)
  /\ pc' = "mergeKeys"
  /\ UNCHANGED <<queue, filePath, content, lines, cleanedLines, i, results,
                 processedMatches, usedKeysData, filesScanned>>
  /\ UNCHANGED <<gitVars, loadVars, dupVars, mainVars, restVars>>

\* the merge that forgets the keys of the file
MergeKeysForgotten ==
  /\ pc = "mergeKeys"
  /\ usedKeysData' = [usedKeysData EXCEPT !.dynamicKeys = @ \o results.dynamicKeys]
  /\ pc' = "mergeLocations"
  /\ UNCHANGED <<queue, filePath, content, lines, cleanedLines, i, results,
                 processedMatches, filesScanned>>
  /\ UNCHANGED <<gitVars, loadVars, dupVars, mainVars, restVars>>

\* main: result.keys.forEach(add); usedKeysData.dynamicKeys.push(...)
MergeKeys ==
  /\ pc = "mergeKeys"
  /\ usedKeysData' = [usedKeysData EXCEPT
                        !.keys = @ \cup results.keys,
                        !.dynamicKeys = @ \o results.dynamicKeys]
  /\ pc' = "mergeLocations"
  /\ UNCHANGED <<queue, filePath, content, lines, cleanedLines, i, results,
                 processedMatches, filesScanned>>
  /\ UNCHANGED <<gitVars, loadVars, dupVars, mainVars, restVars>>

\* usedKeysData.locations after the for loop over Object.entries(result.locations)
MergedLocations(into, from) ==
  [k \in DOMAIN into \cup DOMAIN from |->
     (IF k \in DOMAIN into THEN into[k] ELSE <<>>)
       \o (IF k \in DOMAIN from THEN from[k] ELSE <<>>)]

\* main: the locations of the file are appended, the loop goes to the next file
MergeLocations ==
  /\ pc = "mergeLocations"
  /\ usedKeysData' = [usedKeysData EXCEPT
                        !.locations = MergedLocations(@, results.locations)]
  /\ queue' = Tail(queue)
  /\ pc' = "idle"
  /\ UNCHANGED <<filePath, content, lines, cleanedLines, i, results,
                 processedMatches, filesScanned>>
  /\ UNCHANGED <<gitVars, loadVars, dupVars, mainVars, restVars>>

NextScan ==
  \/ ReadFile
  \/ Window
  \/ Return
  \/ MergeKeys
  \/ MergeLocations

SpecScan ==
  InitScan /\ [][NextScan]_vars

\* the scan loop late in a walk: many files that use one key are merged already
InitBulk ==
  /\ queue \in SeqsOf(TreeFiles, MaxFiles)
  /\ pc = "idle"
  /\ filePath = <<>>
  /\ content = <<>>
  /\ lines = <<>>
  /\ cleanedLines = <<>>
  /\ i = 0
  /\ results = EmptyResults
  /\ processedMatches = {}
  /\ \E n \in BulkCounts :
       /\ usedKeysData = IndexAfter(n)
       /\ filesScanned = n
  /\ GitIdle /\ LoadIdle /\ DupIdle /\ MainIdle /\ RestIdle

SpecBulk ==
  InitBulk /\ [][NextScan]_vars

\* the scan loop over one file of lines with dynamic calls
InitDynamic ==
  /\ queue \in { <<f>> : f \in DynamicFiles }
  /\ pc = "idle"
  /\ filePath = <<>>
  /\ content = <<>>
  /\ lines = <<>>
  /\ cleanedLines = <<>>
  /\ i = 0
  /\ results = EmptyResults
  /\ processedMatches = {}
  /\ usedKeysData = EmptyResults
  /\ filesScanned = 0
  /\ GitIdle /\ LoadIdle /\ DupIdle /\ MainIdle /\ RestIdle

SpecDynamic ==
  InitDynamic /\ [][NextScan]_vars

\* the scan loop over one file made of lines of the fixture
InitFixture ==
  /\ queue \in { <<f>> : f \in FixtureFiles }
  /\ pc = "idle"
  /\ filePath = <<>>
  /\ content = <<>>
  /\ lines = <<>>
  /\ cleanedLines = <<>>
  /\ i = 0
  /\ results = EmptyResults
  /\ processedMatches = {}
  /\ usedKeysData = EmptyResults
  /\ filesScanned = 0
  /\ GitIdle /\ LoadIdle /\ DupIdle /\ MainIdle /\ RestIdle

SpecFixture ==
  InitFixture /\ [][NextScan]_vars

\* the scan loop over one file that holds one call of one of the shapes
InitShapes ==
  /\ queue \in { <<f>> : f \in ShapeFiles }
  /\ pc = "idle"
  /\ filePath = <<>>
  /\ content = <<>>
  /\ lines = <<>>
  /\ cleanedLines = <<>>
  /\ i = 0
  /\ results = EmptyResults
  /\ processedMatches = {}
  /\ usedKeysData = EmptyResults
  /\ filesScanned = 0
  /\ GitIdle /\ LoadIdle /\ DupIdle /\ MainIdle /\ RestIdle

SpecShapes ==
  InitShapes /\ [][NextScan]_vars

\* ------------------------------------------------------------------------
\* extractKeys called on its own with any value as content
\* ------------------------------------------------------------------------
InitCall ==
  /\ argument \in Contents
  /\ cleanedContent = undefined
  /\ filePath \in CallPaths
  /\ queue = <<>>
  /\ pc = "call"
  /\ content = <<>>
  /\ lines = <<>>
  /\ cleanedLines = <<>>
  /\ i = 0
  /\ results = EmptyResults
  /\ processedMatches = {}
  /\ usedKeysData = EmptyResults
  /\ filesScanned = 0
  /\ GitIdle /\ LoadIdle /\ DupIdle /\ MainIdle /\ ValueIdle /\ SignalIdle /\ WalkIdle

\* a value that has the methods replace and split of a string
HasStringMethods(value) ==
  value.type = "string"

\* extractKeys: const cleanedContent = stripComments(content, filePath);
\* a file of unknown type gets content back untouched, otherwise
\* content.replace is called and throws a TypeError unless content is a string
CallStripComments ==
  /\ pc = "call"
  /\ pc' = IF ~isPhp(filePath) /\ ~isJs(filePath) THEN "split"
           ELSE IF HasStringMethods(argument) THEN "split"
           ELSE "thrown"
  /\ cleanedContent' =
       IF ~isPhp(filePath) /\ ~isJs(filePath) THEN argument
       ELSE IF HasStringMethods(argument)
         THEN [type |-> "string", str |-> stripComments(argument.str, filePath)]
       ELSE cleanedContent
  /\ UNCHANGED <<queue, filePath, content, lines, cleanedLines, i, results,
                 processedMatches, usedKeysData, filesScanned, argument>>
  /\ UNCHANGED <<gitVars, loadVars, dupVars, mainVars, valueVars, signalVars, walkVars>>

\* extractKeys: results is created, content.split and cleanedContent.split
\* are called; content.split throws a TypeError unless content is a string
SplitLines ==
  /\ pc = "split"
  /\ IF HasStringMethods(argument)
       THEN /\ content' = argument.str
            /\ lines' = Split(argument.str)
            /\ cleanedLines' = Split(cleanedContent.str)
            /\ pc' = "scan"
       ELSE /\ pc' = "thrown"
            /\ UNCHANGED <<content, lines, cleanedLines>>
  /\ i' = 0
  /\ results' = EmptyResults
  /\ processedMatches' = {}
  /\ UNCHANGED <<queue, filePath, usedKeysData, filesScanned>>
  /\ UNCHANGED <<gitVars, loadVars, dupVars, mainVars, restVars>>

NextCall ==
  \/ CallStripComments
  \/ SplitLines
  \/ Window
  \/ Return

SpecCall ==
  InitCall /\ [][NextCall]_vars

\* ------------------------------------------------------------------------
\* parseGitignore and the predicate isGitignored it returns
\* ------------------------------------------------------------------------
InitIgnore ==
  /\ gitignoreLines \in SeqsOf(GitignoreLineSet, MaxRules)
  /\ patterns = <<>>
  /\ \E call \in GitignoreCalls :
       /\ relativePath = call[1]
       /\ isDirectory = call[2]
  /\ ruleIndex = 0
  /\ ignored = FALSE
  /\ gitPc = "parse"
  /\ ScanIdle /\ LoadIdle /\ DupIdle /\ MainIdle /\ RestIdle

\* parseGitignore: the file is read and the rules are built
ParseGitignore ==
  /\ gitPc = "parse"
  /\ patterns' = ParseRules(gitignoreLines)
  /\ gitPc' = "call"
  /\ UNCHANGED <<gitignoreLines, relativePath, isDirectory, ruleIndex, ignored>>
  /\ UNCHANGED <<scanVars, loadVars, dupVars, mainVars, restVars>>

\* isGitignored: a path outside baseDir, or baseDir itself, is not ignored
ReturnOutside ==
  /\ gitPc = "call"
  /\ OutsideBase(relativePath)
  /\ ignored' = FALSE
  /\ gitPc' = "returned"
  /\ UNCHANGED <<gitignoreLines, patterns, relativePath, isDirectory, ruleIndex>>
  /\ UNCHANGED <<scanVars, loadVars, dupVars, mainVars, restVars>>

\* isGitignored: let ignored = false, the for loop starts
EnterRules ==
  /\ gitPc = "call"
  /\ ~OutsideBase(relativePath)
  /\ ignored' = FALSE
  /\ ruleIndex' = 1
  /\ gitPc' = "rules"
  /\ UNCHANGED <<gitignoreLines, patterns, relativePath, isDirectory>>
  /\ UNCHANGED <<scanVars, loadVars, dupVars, mainVars, restVars>>

\* isGitignored: one iteration of the for loop over patterns
RuleStep ==
  /\ gitPc = "rules"
  /\ ruleIndex <= Len(patterns)
  /\ ignored' = AfterRule(ignored, patterns[ruleIndex],
                          RuleMatches(patterns[ruleIndex], relativePath, isDirectory))
  /\ ruleIndex' = ruleIndex + 1
  /\ UNCHANGED <<gitignoreLines, patterns, relativePath, isDirectory, gitPc>>
  /\ UNCHANGED <<scanVars, loadVars, dupVars, mainVars, restVars>>

\* isGitignored: return ignored
ReturnIgnored ==
  /\ gitPc = "rules"
  /\ ruleIndex > Len(patterns)
  /\ gitPc' = "returned"
  /\ UNCHANGED <<gitignoreLines, patterns, relativePath, isDirectory, ruleIndex, ignored>>
  /\ UNCHANGED <<scanVars, loadVars, dupVars, mainVars, restVars>>

NextIgnore ==
  \/ ParseGitignore
  \/ ReturnOutside
  \/ EnterRules
  \/ RuleStep
  \/ ReturnIgnored

SpecIgnore ==
  InitIgnore /\ [][NextIgnore]_vars

\* ------------------------------------------------------------------------
\* loadLocale
\* ------------------------------------------------------------------------
InitLoad ==
  /\ langDir \in [single : SinglePhpFiles, dir : PhpDirs, json : JsonFiles]
  /\ map = <<>>
  /\ flat = <<>>
  /\ entry = <<>>
  /\ dirEntries = <<>>
  /\ loadPc = "single"
  /\ ScanIdle /\ GitIdle /\ DupIdle /\ MainIdle /\ RestIdle

\* if (isFile(singlePhpPath)): the flat file is decoded and flattened
LoadSingle ==
  /\ loadPc = "single"
  /\ IF langDir.single.exists
       THEN /\ flat' = flatten(langDir.single.data, <<>>, <<>>)
            /\ entry' = locale \o <<".","p","h","p">>
            /\ loadPc' = "singleLoop"
       ELSE /\ loadPc' = "dir"
            /\ UNCHANGED <<flat, entry>>
  /\ UNCHANGED <<langDir, map, dirEntries>>
  /\ UNCHANGED <<scanVars, gitVars, dupVars, mainVars, restVars>>

\* one iteration of the loop over the entries of the flat file
SingleEntry ==
  /\ loadPc = "singleLoop"
  /\ flat # <<>>
  /\ map' = Define(map, Head(flat).key, Head(flat).value, entry)
  /\ flat' = Tail(flat)
  /\ UNCHANGED <<langDir, entry, dirEntries, loadPc>>
  /\ UNCHANGED <<scanVars, gitVars, dupVars, mainVars, restVars>>

\* if (isDir(phpDir)): the directory is listed
ReadDir ==
  /\ (loadPc = "singleLoop" /\ flat = <<>>) \/ loadPc = "dir"
  /\ IF langDir.dir.exists
       THEN /\ dirEntries' = langDir.dir.entries
            /\ loadPc' = "dirLoop"
       ELSE /\ loadPc' = "json"
            /\ UNCHANGED dirEntries
  /\ UNCHANGED <<langDir, map, flat, entry>>
  /\ UNCHANGED <<scanVars, gitVars, dupVars, mainVars, restVars>>

\* for (const entry of fs.readdirSync(phpDir)): the next file of the
\* directory is decoded and flattened under its namespace
NamespaceFile ==
  /\ loadPc = "dirLoop"
  /\ flat = <<>>
  /\ dirEntries # <<>>
  /\ IF EndsWith(Head(dirEntries).name, <<".","p","h","p">>)
       THEN /\ flat' = flatten(Head(dirEntries).data, Namespace(Head(dirEntries).name), <<>>)
            /\ entry' = Head(dirEntries).name
       ELSE UNCHANGED <<flat, entry>>
  /\ dirEntries' = Tail(dirEntries)
  /\ UNCHANGED <<langDir, map, loadPc>>
  /\ UNCHANGED <<scanVars, gitVars, dupVars, mainVars, restVars>>

\* one iteration of the loop over the entries of a namespace file
NamespaceEntry ==
  /\ loadPc = "dirLoop"
  /\ flat # <<>>
  /\ map' = Define(map, Head(flat).key, Head(flat).value, entry)
  /\ flat' = Tail(flat)
  /\ UNCHANGED <<langDir, entry, dirEntries, loadPc>>
  /\ UNCHANGED <<scanVars, gitVars, dupVars, mainVars, restVars>>

\* if (isFile(jsonPath)): the JSON file is parsed; its entries are not
\* flattened; Object.entries(data) throws out of loadLocale when data is null
LoadJson ==
  /\ (loadPc = "dirLoop" /\ flat = <<>> /\ dirEntries = <<>>) \/ loadPc = "json"
  /\ IF langDir.json.exists
       THEN LET data == loadJsonLangFile(langDir.json)
            IN  IF ObjectEntries(data).threw
                  THEN /\ loadPc' = "thrown"
                       /\ UNCHANGED <<flat, entry>>
                  ELSE /\ flat' = ObjectEntries(data).entries
                       /\ entry' = locale \o <<".","j","s","o","n">>
                       /\ loadPc' = "jsonLoop"
       ELSE /\ loadPc' = "returned"
            /\ UNCHANGED <<flat, entry>>
  /\ UNCHANGED <<langDir, map, dirEntries>>
  /\ UNCHANGED <<scanVars, gitVars, dupVars, mainVars, restVars>>

\* one iteration of the loop over the entries of the JSON file
JsonEntry ==
  /\ loadPc = "jsonLoop"
  /\ flat # <<>>
  /\ map' = Define(map, Head(flat).key, Head(flat).value, entry)
  /\ flat' = Tail(flat)
  /\ UNCHANGED <<langDir, entry, dirEntries, loadPc>>
  /\ UNCHANGED <<scanVars, gitVars, dupVars, mainVars, restVars>>

\* return map
ReturnMap ==
  /\ loadPc = "jsonLoop"
  /\ flat = <<>>
  /\ loadPc' = "returned"
  /\ UNCHANGED <<langDir, map, flat, entry, dirEntries>>
  /\ UNCHANGED <<scanVars, gitVars, dupVars, mainVars, restVars>>

NextLoad ==
  \/ LoadSingle
  \/ SingleEntry
  \/ ReadDir
  \/ NamespaceFile
  \/ NamespaceEntry
  \/ LoadJson
  \/ JsonEntry
  \/ ReturnMap

SpecLoad ==
  InitLoad /\ [][NextLoad]_vars

\* loadLocale on a lang directory whose JSON file may hold anything
InitLoadAny ==
  /\ langDir \in [single : SinglePhpFiles, dir : PhpDirs, json : JsonFiles \cup OtherJsonFiles]
  /\ map = <<>>
  /\ flat = <<>>
  /\ entry = <<>>
  /\ dirEntries = <<>>
  /\ loadPc = "single"
  /\ ScanIdle /\ GitIdle /\ DupIdle /\ MainIdle /\ RestIdle

SpecLoadAny ==
  InitLoadAny /\ [][NextLoad]_vars

\* ------------------------------------------------------------------------
\* extractPhpArrayKeys followed by findIntraFileDuplicates, on one file
\* ------------------------------------------------------------------------
InitDup ==
  /\ phpLines \in PhpFiles
  /\ lineNum = 0
  /\ pathStack = <<>>
  /\ keys = <<>>
  /\ duplicates = <<>>
  /\ dupPc = "lines"
  /\ ScanIdle /\ GitIdle /\ LoadIdle /\ MainIdle /\ RestIdle

\* lines.forEach: a line that holds a key
KeyLine ==
  /\ dupPc = "lines"
  /\ lineNum < Len(phpLines)
  /\ KeyMatch(phpLines[lineNum + 1]).ok
  /\ LET line == phpLines[lineNum + 1]
         key  == KeyMatch(line).key
     IN  /\ keys' = Append(keys, [key |-> key, line |-> lineNum + 1,
                                  indent |-> Indent(line),
                                  path |-> PathOf(pathStack, key),
                                  raw |-> Trim(line)])
         /\ pathStack' = AfterKeyLine(pathStack, key, line)
  /\ lineNum' = lineNum + 1
  /\ UNCHANGED <<phpLines, duplicates, dupPc>>
  /\ UNCHANGED <<scanVars, gitVars, loadVars, mainVars, restVars>>

\* lines.forEach: a line that holds no key
PlainLine ==
  /\ dupPc = "lines"
  /\ lineNum < Len(phpLines)
  /\ ~KeyMatch(phpLines[lineNum + 1]).ok
  /\ pathStack' = AfterPlainLine(pathStack, phpLines[lineNum + 1])
  /\ lineNum' = lineNum + 1
  /\ UNCHANGED <<phpLines, keys, duplicates, dupPc>>
  /\ UNCHANGED <<scanVars, gitVars, loadVars, mainVars, restVars>>

\* extractPhpArrayKeys returns keys; findIntraFileDuplicates(keys)
FindDuplicates ==
  /\ dupPc = "lines"
  /\ lineNum >= Len(phpLines)
  /\ duplicates' = findIntraFileDuplicates(keys)
  /\ dupPc' = "done"
  /\ UNCHANGED <<phpLines, lineNum, pathStack, keys>>
  /\ UNCHANGED <<scanVars, gitVars, loadVars, mainVars, restVars>>

NextDup ==
  \/ KeyLine
  \/ PlainLine
  \/ FindDuplicates

SpecDup ==
  InitDup /\ [][NextDup]_vars

\* extractPhpArrayKeys on the texts whose arrays close in different ways
InitStack ==
  /\ phpLines \in StackFiles
  /\ lineNum = 0
  /\ pathStack = <<>>
  /\ keys = <<>>
  /\ duplicates = <<>>
  /\ dupPc = "lines"
  /\ ScanIdle /\ GitIdle /\ LoadIdle /\ MainIdle /\ RestIdle

SpecStack ==
  InitStack /\ [][NextDup]_vars

\* the texts stripComments is called on: every text of up to MaxText
\* characters that open, close or end comments, and the texts with calls
MaxText ==
  4

StripChars ==
  {"/", "*", "#", "\n", "a"}

StripTexts ==
  SeqsOf(StripChars, MaxText) \cup CallTexts

\* paths of every dialect, in capitals, without a dot, and the default ''
StripPaths ==
  CallPaths \cup { <<"V",".","P","H","P">>, <<"v",".","v","u","e">>, <<"v",".","t","s","x">>, <<"p","h","p">> }

\* stripComments called with a text and a path
InitStrip ==
  /\ argument \in { Str(t) : t \in StripTexts }
  /\ cleanedContent = undefined
  /\ filePath \in StripPaths
  /\ queue = <<>>
  /\ pc = "call"
  /\ content = <<>>
  /\ lines = <<>>
  /\ cleanedLines = <<>>
  /\ i = 0
  /\ results = EmptyResults
  /\ processedMatches = {}
  /\ usedKeysData = EmptyResults
  /\ filesScanned = 0
  /\ GitIdle /\ LoadIdle /\ DupIdle /\ MainIdle /\ ValueIdle /\ SignalIdle /\ WalkIdle

SpecStrip ==
  InitStrip /\ [][CallStripComments]_vars

\* ------------------------------------------------------------------------
\* walk: the generator that yields the files of a directory tree
\* ------------------------------------------------------------------------
IGNORED_DIRS ==
  { <<".","c","l","a","u","d","e">>,
    <<"n","o","d","e","_","m","o","d","u","l","e","s">>,
    <<"v","e","n","d","o","r">>,
    <<".","g","i","t">>,
    <<".","i","d","e","a">>,
    <<".","v","s","c","o","d","e">>,
    <<"c","o","n","f","i","g">>,
    <<"s","t","o","r","a","g","e">>,
    <<"d","a","t","a","b","a","s","e">>,
    <<"r","o","u","t","e","s">>,
    <<"b","o","o","t","s","t","r","a","p">>,
    <<"p","u","b","l","i","c">>,
    <<"b","u","i","l","d">>,
    <<"d","i","s","t">>,
    <<".","n","e","x","t">>,
    <<"o","u","t">>,
    <<"t","e","s","t","s">>,
    <<"t","e","s","t","d","a","t","a">>,
    <<"d","o","c","s">>,
    <<"d","o","c">>,
    <<"s","c","r","i","p","t","s">>,
    <<"b","i","n">> }

\* CONFIG.EXT_LIST as configured by default
EXT_LIST ==
  << <<"p","h","p">>,
     <<"b","l","a","d","e",".","p","h","p">>,
     <<"t","s">>,
     <<"t","s","x">>,
     <<"j","s">>,
     <<"j","s","x">>,
     <<"v","u","e">> >>

\* an fs.Dirent of readdirSync(dir, {withFileTypes: true})
DirEntry(name) ==
  [name |-> name, kind |-> "dir", target |-> <<>>]

FileEntry(name) ==
  [name |-> name, kind |-> "file", target |-> <<>>]

LinkEntry(name, target) ==
  [name |-> name, kind |-> "link", target |-> target]

\* ent.isDirectory(): the kind of the entry itself, so false for a symbolic
\* link whatever it points to
entIsDirectory(ent) ==
  ent.kind = "dir"

\* fs.realpathSync(path): the names of the path resolved one by one from
\* the working directory, a symbolic link replaced by its target; a path is
\* the sequence of its names and tree gives the listing of each directory
RECURSIVE ResolveFrom(_, _, _)
ResolveFrom(tree, cur, rest) ==
  IF cur \notin DOMAIN tree THEN [ok |-> FALSE, real |-> <<>>]
  ELSE IF rest = <<>> THEN [ok |-> TRUE, real |-> cur]
  ELSE LET found == { n \in 1..Len(tree[cur]) : tree[cur][n].name = Head(rest) }
       IN  IF found = {} THEN [ok |-> FALSE, real |-> <<>>]
           ELSE LET ent == tree[cur][CHOOSE n \in found : TRUE]
                IN  IF ent.kind = "link" THEN ResolveFrom(tree, ent.target, Tail(rest))
                    ELSE IF ent.kind = "dir" THEN ResolveFrom(tree, Append(cur, ent.name), Tail(rest))
                    ELSE [ok |-> Tail(rest) = <<>>, real |-> Append(cur, ent.name)]

realpathSync(tree, path) ==
  ResolveFrom(tree, <<>>, path)

\* isDir(p): fs.statSync(p).isDirectory(), false when statSync throws
isDir(tree, path) ==
  realpathSync(tree, path).ok /\ realpathSync(tree, path).real \in DOMAIN tree

\* the test that finds no path visited
SkipsNothing(seen, real) ==
  FALSE

\* visited.has(realPath)
Skips(seen, real) ==
  real \in seen

\* config.EXT_LIST.some(ext => ...) on the lower-cased name of the entry
matches(name) ==
  LET lower == ToLowerCase(name)
  IN  \E n \in 1..Len(EXT_LIST) :
        IF EXT_LIST[n] = <<"b","l","a","d","e",".","p","h","p">>
          THEN EndsWith(lower, <<".","b","l","a","d","e",".","p","h","p">>)
          ELSE EndsWith(lower, <<".">> \o ToLowerCase(EXT_LIST[n]))

\* the largest number of entries of a directory whose listing varies
MaxEntries ==
  2

\* the listings of up to MaxEntries entries with different names
ListingsOf(entries) ==
  { ls \in SeqsOf(entries, MaxEntries) :
      \A m, n \in 1..Len(ls) : m # n => ls[m].name # ls[n].name }

\* the entries src may hold: directories, a hidden one and an ignored one
\* among them, a file, and a symbolic link back to src itself
SrcEntries ==
  { DirEntry(<<"a">>), DirEntry(<<"b">>), DirEntry(<<".","h">>), DirEntry(<<"v","e","n","d","o","r">>),
    FileEntry(<<"x",".","j","s">>), LinkEntry(<<"l","o","o","p",".","j","s">>, <<<<"s","r","c">>>>) }

\* the listings src/a may have: of a file, a link up to src, a directory
SubListings ==
  { <<>>,
    << FileEntry(<<"y",".","p","h","p">>), LinkEntry(<<"u","p">>, <<<<"s","r","c">>>>) >>,
    << DirEntry(<<"c">>), LinkEntry(<<"u","p">>, <<<<"s","r","c">>>>) >>,
    << LinkEntry(<<"u","p">>, <<<<"s","r","c">>>>), FileEntry(<<"y",".","p","h","p">>), DirEntry(<<"c">>) >> }

HasDir(listing, name) ==
  \E n \in 1..Len(listing) : listing[n] = DirEntry(name)

\* the file tree under the working directory: src with the two listings
\* that vary, the link lnk to src/a, and the directories that are listed
TreeOf(srcList, subList) ==
  LET every == (<<>> :> << DirEntry(<<"s","r","c">>), LinkEntry(<<"l","n","k">>, <<<<"s","r","c">>, <<"a">>>>), FileEntry(<<"f",".","j","s">>) >>)
                 @@ (<<<<"s","r","c">>>> :> srcList)
                 @@ (<<<<"s","r","c">>, <<"a">>>> :> subList)
                 @@ (<<<<"s","r","c">>, <<"a">>, <<"c">>>> :> << FileEntry(<<"z",".","t","x","t">>), FileEntry(<<"Q",".","B","l","a","d","e",".","P","H","P">>),
                                                    LinkEntry(<<"b","a","c","k">>, <<<<"s","r","c">>, <<"a">>>>) >>)
                 @@ (<<<<"s","r","c">>, <<"b">>>> :> << FileEntry(<<"W",".","V","U","E">>), LinkEntry(<<"a">>, <<<<"s","r","c">>, <<"a">>>>) >>)
                 @@ (<<<<"s","r","c">>, <<".","h">>>> :> << FileEntry(<<"h",".","j","s">>) >>)
                 @@ (<<<<"s","r","c">>, <<"v","e","n","d","o","r">>>> :> << FileEntry(<<"v",".","p","h","p">>) >>)
      present == { <<>>, <<<<"s","r","c">>>> }
                   \cup { p \in { <<<<"s","r","c">>, <<"b">>>>, <<<<"s","r","c">>, <<".","h">>>>, <<<<"s","r","c">>, <<"v","e","n","d","o","r">>>>, <<<<"s","r","c">>, <<"a">>>> } :
                            HasDir(srcList, p[2]) }
                   \cup { p \in { <<<<"s","r","c">>, <<"a">>, <<"c">>>> } :
                            HasDir(srcList, p[2]) /\ HasDir(subList, p[3]) }
  IN  [p \in present |-> every[p]]

\* the calls of walk: on src, on src with a visited set that holds src/a
\* already, with a matcher that ignores src/b, with src/a/c unreadable, on
\* the link lnk, and on a path that is no directory
WalkCalls ==
  { [tree |-> TreeOf(srcList, subList), dir |-> c.dir, visited |-> c.visited,
     gitignored |-> c.gitignored, unreadable |-> c.unreadable] :
      srcList \in ListingsOf(SrcEntries), subList \in SubListings,
      c \in { [dir |-> <<<<"s","r","c">>>>, visited |-> {}, gitignored |-> {}, unreadable |-> {}],
              [dir |-> <<<<"s","r","c">>>>, visited |-> { <<<<"s","r","c">>, <<"a">>>> }, gitignored |-> {}, unreadable |-> {}],
              [dir |-> <<<<"s","r","c">>>>, visited |-> {}, gitignored |-> { <<<<"s","r","c">>, <<"b">>>> }, unreadable |-> {}],
              [dir |-> <<<<"s","r","c">>>>, visited |-> {}, gitignored |-> {}, unreadable |-> { <<<<"s","r","c">>, <<"a">>, <<"c">>>> }],
              [dir |-> <<<<"l","n","k">>>>, visited |-> {}, gitignored |-> {}, unreadable |-> {}],
              [dir |-> <<<<"f",".","j","s">>>>, visited |-> {}, gitignored |-> {}, unreadable |-> {}] } }

\* the frame of a call walk(dir, ...) that has not run yet
CallOf(path) ==
  [dir |-> path, list |-> <<>>, index |-> 0, entered |-> FALSE]

InitWalk ==
  /\ walkArgs \in WalkCalls
  /\ walkStack = << CallOf(walkArgs.dir) >>
  /\ visited = walkArgs.visited
  /\ yielded = <<>>
  /\ listed = <<>>
  /\ walkPc = "walking"
  /\ ScanIdle /\ GitIdle /\ LoadIdle /\ DupIdle /\ MainIdle
  /\ ValueIdle /\ CallIdle /\ SignalIdle

\* what is left once the frame on top has returned
Returned ==
  SubSeq(walkStack, 1, Len(walkStack) - 1)

\* walk up to the for loop: isDir, realpathSync, the test and the update of
\* visited, readdirSync; a directory that cannot be read is left in the
\* catch block
WalkEnter ==
  /\ walkPc = "walking"
  /\ walkStack # <<>>
  /\ LET frame == walkStack[Len(walkStack)]
         real  == realpathSync(walkArgs.tree, frame.dir).real
     IN  /\ ~frame.entered
         /\ IF ~isDir(walkArgs.tree, frame.dir) \/ Skips(visited, real)
              THEN /\ walkStack' = Returned
                   /\ UNCHANGED <<visited, listed>>
            ELSE IF real \in walkArgs.unreadable
              THEN /\ walkStack' = Returned
                   /\ visited' = visited \cup {real}
                   /\ UNCHANGED listed
            ELSE /\ walkStack' = Append(Returned, [frame EXCEPT !.entered = TRUE,
                                                                 !.list = walkArgs.tree[real],
                                                                 !.index = 1])
                 /\ visited' = visited \cup {real}
                 /\ listed' = Append(listed, real)
  /\ walkPc' = IF walkStack' = <<>> THEN "done" ELSE "walking"
  /\ UNCHANGED <<walkArgs, yielded>>
  /\ UNCHANGED <<scanVars, gitVars, loadVars, dupVars, mainVars, valueVars, callVars, signalVars>>

\* for (const ent of list): one entry; a directory is walked by a nested
\* call, a file whose name matches is yielded
WalkEntry ==
  /\ walkPc = "walking"
  /\ walkStack # <<>>
  /\ LET frame    == walkStack[Len(walkStack)]
         ent      == frame.list[frame.index]
         fullPath == Append(frame.dir, ent.name)
         advanced == [walkStack EXCEPT ![Len(walkStack)].index = @ + 1]
     IN  /\ frame.entered
         /\ frame.index <= Len(frame.list)
         /\ IF ent.name[1] = "." \/ fullPath \in walkArgs.gitignored
              THEN walkStack' = advanced /\ UNCHANGED yielded
            ELSE IF entIsDirectory(ent)
              THEN /\ walkStack' = IF ent.name \in IGNORED_DIRS THEN advanced
                                    ELSE Append(advanced, CallOf(fullPath))
                   /\ UNCHANGED yielded
            ELSE /\ walkStack' = advanced
                 /\ yielded' = IF matches(ent.name) THEN Append(yielded, fullPath) ELSE yielded
  /\ UNCHANGED <<walkArgs, visited, listed, walkPc>>
  /\ UNCHANGED <<scanVars, gitVars, loadVars, dupVars, mainVars, valueVars, callVars, signalVars>>

\* the for loop is over: the call returns to the one that made it
WalkReturn ==
  /\ walkPc = "walking"
  /\ walkStack # <<>>
  /\ walkStack[Len(walkStack)].entered
  /\ walkStack[Len(walkStack)].index > Len(walkStack[Len(walkStack)].list)
  /\ walkStack' = Returned
  /\ walkPc' = IF walkStack' = <<>> THEN "done" ELSE "walking"
  /\ UNCHANGED <<walkArgs, visited, yielded, listed>>
  /\ UNCHANGED <<scanVars, gitVars, loadVars, dupVars, mainVars, valueVars, callVars, signalVars>>

NextWalk ==
  \/ WalkEnter
  \/ WalkEntry
  \/ WalkReturn

\* the consumer of the generator asks for the next path until there is none
SpecWalk ==
  InitWalk /\ [][NextWalk]_vars /\ WF_vars(NextWalk)

\* ------------------------------------------------------------------------
\* Properties of the scanner
\* ------------------------------------------------------------------------
CallInitials ==
  { pf[1] : pf \in UNION { compiledPatterns[n].prefixes : n \in 1..Len(compiledPatterns) } }

\* the matches of one pattern that start at a position in p..stop, found as
\* regex.exec finds them: one after the other, each search resuming where
\* the match before it ended
RECURSIVE ExecOnLine(_, _, _, _)
ExecOnLine(text, p, stop, pat) ==
  IF p > stop THEN <<>>
  ELSE IF \A pf \in pat.prefixes : text[p] # pf[1] THEN ExecOnLine(text, p + 1, stop, pat)
  ELSE LET m == MatchAt(text, p, pat)
       IN  IF m.ok THEN <<m>> \o ExecOnLine(text, m.end, stop, pat)
           ELSE ExecOnLine(text, p + 1, stop, pat)

\* the positions at which the lines of a text start
LineStarts(text) ==
  { q \in 1..Len(text) : q = 1 \/ text[q - 1] = "\n" }

\* The calls of a text, taken over the whole text and not over a window: for
\* every line and every one of the nine regexes, the matches that start on
\* the line when the regex is applied from the start of the line on.  Of a
\* call: the key, the line of the first and of the last character of the
\* match, and the number of lines of the literal.
CallsOf(text) ==
  { [key   |-> Trim(c.m.key),
     line  |-> NewlinesBefore(text, c.m.index) + 1,
     last  |-> NewlinesBefore(text, c.m.end - 1) + 1,
     lits  |-> NewlinesBefore(c.m.key, Len(c.m.key) + 1) + 1,
     index |-> c.m.index,
     end   |-> c.m.end] :
    c \in UNION { { [m |-> ms[k]] : k \in 1..Len(ms) } :
                   ms \in { ExecOnLine(text, q, SkipUntil(text, q, {"\n"}) - 1,
                                       compiledPatterns[n]) :
                              q \in LineStarts(text),
                              n \in 1..Len(compiledPatterns) } } }

\* the records of a key at a line
RecordsAt(res, key, line) ==
  IF key \in DOMAIN res.locations
    THEN { n \in 1..Len(res.locations[key]) : res.locations[key][n].line = line }
    ELSE {}

\* a key as the two accepted shapes describe it
Letter ==
  Lower \cup Upper

WellShaped(key) ==
  /\ Len(key) > 0
  /\ key[1] \notin WhiteSpace
  /\ key[Len(key)] \notin WhiteSpace
  /\ \A n \in 1..Len(key) : key[n] # Backtick
  /\ key[1] # "{"
  /\ \A n \in 1..(Len(key) - 1) : key[n] = "$" => key[n + 1] \notin Letter \cup {"_"}

RECURSIVE LiveOpen(_, _)
LiveOpen(s, a) ==
  /\ StartsAt(s, a, <<"/", "*">>)
  /\ BlockClose(s, a + 2) # 0
  /\ \A b \in 1..(a - 1) : LiveOpen(s, b) => BlockClose(s, b + 2) + 1 < a

InBlockComment(s, p) ==
  \E a \in 1..p : LiveOpen(s, a) /\ p <= BlockClose(s, a + 2) + 1

CallNames ==
  UNION { compiledPatterns[n].prefixes : n \in 1..Len(compiledPatterns) }

\* line has a call name that starts outside every block comment
CallOutsideBlock(s, line) ==
  \E p \in 1..Len(s) :
    /\ s[p] \in CallInitials
    /\ \E name \in CallNames : StartsAt(s, p, name)
    /\ NewlinesBefore(s, p) + 1 = line
    /\ ~InBlockComment(s, p)

\* the lines of a call hold no comment at all
CommentFree(s, c, php) ==
  \A p \in 1..Len(s) :
    (NewlinesBefore(s, p) + 1 \in c.line..c.last) =>
      /\ s[p] # "/"
      /\ php => s[p] # "#"
      /\ ~InBlockComment(s, p)

KnownDialect(path) ==
  isPhp(path) \/ isJs(path)

C4_OnlyWellShapedKeys ==
  /\ \A k \in results.keys : WellShaped(k)
  /\ KeyUser \notin results.keys
  /\ (pc = "mergeKeys" /\ \E n \in 1..Len(lines) : lines[n] = DU \o Q \o KeyPrice \o Q \o <<")">>)
       => KeyPrice \in results.keys

\* the currency literal has been accepted
C4_Witness ==
  /\ pc = "mergeKeys"
  /\ KeyPrice \in results.keys
  /\ KeyUser \notin results.keys

\* C10: at every point of the scan every key with a locations entry is in
\* keys, in the result of extractKeys and in the index that main builds.
C10_LocationsWithinKeys ==
  /\ DOMAIN results.locations \subseteq results.keys
  /\ DOMAIN usedKeysData.locations \subseteq usedKeysData.keys

\* two files have been merged and a key has locations from both
C10_Witness ==
  /\ pc = "idle"
  /\ filesScanned = 2
  /\ KeyAB \in DOMAIN usedKeysData.locations
  /\ Len(usedKeysData.locations[KeyAB]) >= 2

\* C11 (as claimed): in the index built over the whole tree, after any number of
\* merged files, every key has at most MAX_LOCATIONS_PER_KEY location records,
\* and a key with that many occurrences or more is still a member of keys.
C11_AsClaimed ==
  \A k \in DOMAIN usedKeysData.locations :
    /\ Len(usedKeysData.locations[k]) <= MAX_LOCATIONS_PER_KEY
    /\ Len(usedKeysData.locations[k]) >= MAX_LOCATIONS_PER_KEY => k \in usedKeysData.keys

\* the part of C11 the code keeps: the records extractKeys returns for one file
\* stay within the cap, and a key at or over the cap of the run is in keys
C11_PerFileCapOnly ==
  /\ \A k \in DOMAIN results.locations :
       Len(results.locations[k]) <= MAX_LOCATIONS_PER_KEY
  /\ \A k \in DOMAIN usedKeysData.locations :
       Len(usedKeysData.locations[k]) >= MAX_LOCATIONS_PER_KEY => k \in usedKeysData.keys

\* no two records of dynamicKeys stand at the same line
OneDynamicRecordPerLine ==
  \A m, n \in 1..Len(results.dynamicKeys) :
    m # n => results.dynamicKeys[m].line # results.dynamicKeys[n].line

\* C21 (as claimed): the processing of one window appends at most one record
\* to dynamicKeys, even when several of the three dynamic patterns match the
\* window on different lines, and no two records of dynamicKeys share a line.
C21_AsClaimed ==
  /\ [][(pc = "scan" /\ pc' = "scan") =>
          Len(results'.dynamicKeys) <= Len(results.dynamicKeys) + 1]_vars
  /\ []OneDynamicRecordPerLine

\* what the code keeps: one record per line of the file at most, and one
\* record per dynamic pattern and window at most
C21_OnePerLineAndPattern ==
  /\ [][(pc = "scan" /\ pc' = "scan") =>
          Len(results'.dynamicKeys) <= Len(results.dynamicKeys) + Len(dynamicPatterns)]_vars
  /\ []OneDynamicRecordPerLine

\* the lines at which results holds a location record of a key
LinesWithKey ==
  UNION { { results.locations[k][n].line : n \in 1..Len(results.locations[k]) } :
            k \in DOMAIN results.locations }

\* C22 (as claimed): in a file whose lines hold one call at most, a call
\* whose literal is accepted as a static key has its key in keys and no
\* record in dynamicKeys for its line; the line __('Price: $99') gives the
\* key Price: $99 and no dynamic record.
C22_AsClaimed ==
  pc = "mergeKeys" =>
    /\ \A m \in 1..Len(results.dynamicKeys) :
         results.dynamicKeys[m].line \notin LinesWithKey
    /\ \A n \in 1..Len(lines) :
         lines[n] = Call1(DU, KeyPrice, <<")">>)[1] =>
           /\ KeyPrice \in results.keys
           /\ \A m \in 1..Len(results.dynamicKeys) : results.dynamicKeys[m].line # n

\* what the code keeps: the currency literal is a key
C22_CurrencyLiteralIsKey ==
  pc = "mergeKeys" =>
    \A n \in 1..Len(lines) :
      lines[n] = Call1(DU, KeyPrice, <<")">>)[1] => KeyPrice \in results.keys

\* in a text with one literal in single quotes: the closing quote is
\* followed, after optional white space, by a comma or a closing parenthesis
LiteralIsDelimited(text) ==
  LET open == SkipUntil(text, 1, {"'"})
      shut == SkipUntil(text, open + 1, {"'"})
      term == SkipWhile(text, shut + 1, WhiteSpace)
  IN  term <= Len(text) /\ text[term] \in {",", ")"}

\* C23 (as claimed): for each of the nine call shapes, the page-props-scoped
\* call and @choice included, a key is extracted only when the closing quote
\* of the literal is followed, after optional white space, by a comma or a
\* closing parenthesis; a literal continued by an expression gives no key.
C23_AsClaimed ==
  (pc \in {"scan", "mergeKeys"} /\ results.keys # {}) => LiteralIsDelimited(content)

\* the call is one of the page-props-scoped calls
IsPagePropsCall(text) ==
  \E p \in 1..Len(text) : \E pf \in compiledPatterns[8].prefixes : StartsAt(text, p, pf)

\* what the code keeps: the rule holds for every shape but the
\* page-props-scoped call, whose regex ends at the closing quote
C23_AllButPageProps ==
  (pc \in {"scan", "mergeKeys"} /\ results.keys # {} /\ ~IsPagePropsCall(content)) =>
    LiteralIsDelimited(content)

\* ------------------------------------------------------------------------
\* Properties of isGitignored
\* ------------------------------------------------------------------------
\* the rules among the first k that match the path
MatchingRules(k) ==
  { n \in 1..k : RuleMatches(patterns[n], relativePath, isDirectory) }

\* the verdict of the last of the first k rules that matches, FALSE if none does
LastMatchVerdict(k) ==
  /\ MatchingRules(k) # {}
  /\ LET last == CHOOSE n \in MatchingRules(k) : \A m \in MatchingRules(k) : m <= n
     IN  ~patterns[last].negated

\* C6 as stated: with the rules build/ and !build/keep.txt the predicate
\* reports the file build/keep.txt as not ignored and the file
\* build/other.txt as ignored.
C6_AsClaimed ==
  ( /\ gitPc = "returned"
    /\ gitignoreLines = << Build \o <<"/">>, <<"!">> \o KeepTxt >>
    /\ ~isDirectory ) =>
    /\ relativePath = KeepTxt => ~ignored
    /\ relativePath = OtherTxt => ignored

\* C7: for a path under the base directory, what isGitignored holds after
\* the first k rules, and what it returns after all of them, is the verdict
\* of the last rule that matches the path: ignored when that rule is not
\* negated, not ignored when it is negated or when no rule matches.
C7_LastMatchWins ==
  /\ gitPc = "rules" => ignored = LastMatchVerdict(ruleIndex - 1)
  /\ (gitPc = "returned" /\ ~OutsideBase(relativePath)) =>
       ignored = LastMatchVerdict(Len(patterns))

\* two rules match build/keep.txt, the earlier ignores and the later is
\* negated: the path is not ignored
C7_Witness ==
  /\ gitPc = "returned"
  /\ Len(patterns) = 2
  /\ MatchingRules(2) = {1, 2}
  /\ ~patterns[1].negated
  /\ patterns[2].negated
  /\ ~ignored

\* ------------------------------------------------------------------------
\* Properties of loadLocale
\* ------------------------------------------------------------------------
\* the definitions one file hands to the merge, in the order of its entries
Produced(name, entries) ==
  [n \in 1..Len(entries) |->
     [file |-> name, key |-> entries[n].key, value |-> entries[n].value]]

SingleProduced ==
  IF langDir.single.exists
    THEN Produced(<<"e","n",".","p","h","p">>, flatten(langDir.single.data, <<>>, <<>>))
    ELSE <<>>

RECURSIVE ListingProduced(_)
ListingProduced(listing) ==
  IF listing = <<>> THEN <<>>
  ELSE (IF EndsWith(Head(listing).name, <<".","p","h","p">>)
          THEN Produced(Head(listing).name,
                        flatten(Head(listing).data,
                                SubSeq(Head(listing).name, 1, Len(Head(listing).name) - 4),
                                <<>>))
          ELSE <<>>)
       \o ListingProduced(Tail(listing))

DirProduced ==
  IF langDir.dir.exists THEN ListingProduced(langDir.dir.entries) ELSE <<>>

JsonProduced ==
  IF langDir.json.exists /\ langDir.json.parse.type = "object"
    THEN Produced(<<"e","n",".","j","s","o","n">>, langDir.json.parse.entries)
    ELSE <<>>

\* the definitions of key k within a sequence of definitions
DefinitionsOf(k, produced) ==
  LET IsOfKey(d) == d.key = k
  IN  SelectSeq(produced, IsOfKey)

AllDefinitionsOf(k) ==
  DefinitionsOf(k, SingleProduced \o DirProduced \o JsonProduced)

ProducedKeys ==
  { d.key : d \in { (SingleProduced \o DirProduced \o JsonProduced)[n] :
                      n \in 1..Len(SingleProduced \o DirProduced \o JsonProduced) } }

\* C8: in the map loadLocale returns, every key has one entry that lists the
\* files that produce the key in the order flat file, directory files, JSON
\* file, counts them, and keeps the value, params and plurals of the first
\* of these definitions; a key produced by the flat file and by one
\* namespace file (and not by the JSON file) has count 2 and two files, the
\* flat file first.
C8_FirstDefinitionKept ==
  loadPc = "returned" =>
    /\ DOMAIN map = ProducedKeys
    /\ \A k \in ProducedKeys :
         LET defs == AllDefinitionsOf(k)
         IN  /\ map[k].count = Len(defs)
             /\ map[k].files = [n \in 1..Len(defs) |-> defs[n].file]
             /\ map[k].value = defs[1].value
             /\ map[k].params = extractParams(defs[1].value)
             /\ map[k].plurals = extractPlurals(defs[1].value)
             /\ ( /\ Len(DefinitionsOf(k, SingleProduced)) = 1
                  /\ Len(DefinitionsOf(k, DirProduced)) = 1
                  /\ Len(DefinitionsOf(k, JsonProduced)) = 0 ) =>
                  /\ map[k].count = 2
                  /\ Len(map[k].files) = 2
                  /\ map[k].files[1] = <<"e","n",".","p","h","p">>
                  /\ map[k].value = DefinitionsOf(k, SingleProduced)[1].value

\* the flat file and auth.php both define auth.failed, with values that
\* differ in text, params and plurals; the entry is the flat file's
C8_Witness ==
  /\ loadPc = "returned"
  /\ \E k \in DOMAIN map :
       /\ k = <<"a","u","t","h",".","f","a","i","l","e","d">>
       /\ Len(DefinitionsOf(k, SingleProduced)) = 1
       /\ Len(DefinitionsOf(k, DirProduced)) = 1
       /\ Len(DefinitionsOf(k, JsonProduced)) = 0
       /\ LET first  == DefinitionsOf(k, SingleProduced)[1].value
              second == DefinitionsOf(k, DirProduced)[1].value
          IN  /\ first # second
              /\ extractParams(first) # extractParams(second)
              /\ extractPlurals(first) # extractPlurals(second)
              /\ map[k].value = first
       /\ map[k].count = 2
       /\ map[k].files = << <<"e","n",".","p","h","p">>, <<"a","u","t","h",".","p","h","p">> >>

\* C9: at every point of loadLocale, and in the map it returns, every entry
\* of the map has count equal to the length of files, and count at least 1.
C9_CountIsFilesLength ==
  \A k \in DOMAIN map :
    /\ map[k].count = Len(map[k].files)
    /\ map[k].count >= 1

\* a key that all three sources define: count 3, three files
C9_Witness ==
  /\ loadPc = "returned"
  /\ \E k \in DOMAIN map :
       /\ map[k].count = 3
       /\ map[k].files = << <<"e","n",".","p","h","p">>, <<"a","u","t","h",".","p","h","p">>, <<"e","n",".","j","s","o","n">> >>

\* the leaves of a decoded structure in the order flatten visits them, each
\* with its dotted key: what the structure produces, key by key
RECURSIVE Productions(_, _)
Productions(obj, prefix) ==
  IF obj = <<>> THEN <<>>
  ELSE LET key     == Head(obj).key
           value   == Head(obj).value
           fullKey == IF prefix # <<>> THEN prefix \o <<".">> \o key ELSE key
       IN  (IF value.type = "object"
              THEN Productions(value.entries, fullKey)
              ELSE << [file |-> <<"e","n",".","p","h","p">>, key |-> fullKey, value |-> value] >>)
             \o Productions(Tail(obj), prefix)

\* what the flat file of the locale produces
SingleProductions ==
  IF langDir.single.exists THEN Productions(langDir.single.data, <<>>) ELSE <<>>

\* C24 (as claimed): when the structure of the flat file produces a dotted
\* key twice, the entry of the key counts every production, lists the file
\* once per production, and keeps the value of the first production.
C24_AsClaimed ==
  loadPc = "returned" =>
    \A k \in { SingleProductions[n].key : n \in 1..Len(SingleProductions) } :
      LET own    == DefinitionsOf(k, SingleProductions)
          others == DefinitionsOf(k, DirProduced \o JsonProduced)
      IN  Len(own) >= 2 =>
            /\ map[k].count = Len(own) + Len(others)
            /\ map[k].files = [n \in 1..Len(own) |-> own[n].file]
                                \o [n \in 1..Len(others) |-> others[n].file]
            /\ map[k].value = own[1].value

\* what the code does: flatten keeps one value per key, the last one, so the
\* structure counts once whatever it repeats
C24_LastProductionCountsOnce ==
  loadPc = "returned" =>
    \A k \in { SingleProductions[n].key : n \in 1..Len(SingleProductions) } :
      LET own    == DefinitionsOf(k, SingleProductions)
          others == DefinitionsOf(k, DirProduced \o JsonProduced)
      IN  /\ map[k].count = 1 + Len(others)
          /\ map[k].files = << <<"e","n",".","p","h","p">> >>
                               \o [n \in 1..Len(others) |-> others[n].file]
          /\ map[k].value = own[Len(own)].value

\* C18: loadLocale never throws, whatever the catalog files hold; a JSON file
\* that cannot be parsed, or that parses to a value that is no object, counts
\* as an empty structure, and the map returned holds the entries of the flat
\* file and of the directory files.
C18_AsClaimed ==
  /\ loadPc # "thrown"
  /\ (loadPc = "returned" /\ langDir.json.exists /\ langDir.json.parse.type # "object") =>
       /\ DOMAIN map = ProducedKeys
       /\ \A k \in ProducedKeys :
            /\ map[k].count = Len(AllDefinitionsOf(k))
            /\ map[k].value = AllDefinitionsOf(k)[1].value

\* what the code keeps: a JSON file that cannot be parsed counts as an empty
\* object, and loadLocale throws only when the JSON file holds null
C18_UnparsableIsEmpty ==
  /\ loadPc = "thrown" => langDir.json.exists /\ langDir.json.parse = null
  /\ (loadPc = "returned" /\ langDir.json.exists /\ langDir.json.parse = SyntaxError) =>
       /\ DOMAIN map = ProducedKeys
       /\ \A k \in ProducedKeys : map[k].count = Len(AllDefinitionsOf(k))

\* ------------------------------------------------------------------------
\* Properties of the intra-file duplicate check
\* ------------------------------------------------------------------------
\* the lines at which extractPhpArrayKeys found the full path p
LinesOfPath(p) ==
  { keys[n].line : n \in { m \in 1..Len(keys) : keys[m].path = p } }

\* the numbers of a set in ascending order
RECURSIVE Ascending(_)
Ascending(numbers) ==
  IF numbers = {} THEN <<>>
  ELSE LET least == CHOOSE n \in numbers : \A m \in numbers : n <= m
       IN  <<least>> \o Ascending(numbers \ {least})

\* the reports of findIntraFileDuplicates for the full path p
ReportsOf(p) ==
  { n \in 1..Len(duplicates) : duplicates[n].fullPath = p }

\* the blocks in which the parent key a opens a nested array holding b
NestedBlocks ==
  { << <<" "," ","'","a","'"," ","=",">"," ","[">>, <<" "," "," "," ","'","b","'"," ","=",">"," ","'","x","'",",">>, <<" "," ","]",",">> >>,
    << <<" "," ","'","a","'"," ","=",">"," ","a","r","r","a","y","(">>, <<" "," "," "," ","'","b","'"," ","=",">"," ","1",",">>, <<" "," ",")",",">> >> }

\* the catalog texts in which the parent key a opens two nested blocks
TwiceNested ==
  { << <<"<","?","p","h","p">>, <<"r","e","t","u","r","n"," ","[">> >> \o b1 \o b2 \o << <<"]",";">> >> :
      b1 \in NestedBlocks, b2 \in NestedBlocks }

\* C5: once a catalog text has been read and grouped, every full path found
\* at n > 1 lines is reported exactly once, with count n and these n lines
\* in ascending order, a path found once is not reported, and nothing else
\* is reported; when the parent key a opens two nested blocks that hold b
\* (lines 3-5 and 6-8), the report is one duplicate for a (lines 3, 6) and
\* one for a.b (lines 4, 7), each with count 2.
C5_DuplicatePathsReported ==
  dupPc = "done" =>
    /\ \A n \in 1..Len(duplicates) : LinesOfPath(duplicates[n].fullPath) # {}
    /\ \A n \in 1..Len(keys) :
         LET p   == keys[n].path
             occ == LinesOfPath(p)
         IN  IF Cardinality(occ) > 1
               THEN /\ Cardinality(ReportsOf(p)) = 1
                    /\ \A r \in ReportsOf(p) :
                         /\ duplicates[r].count = Cardinality(occ)
                         /\ duplicates[r].lines = Ascending(occ)
               ELSE ReportsOf(p) = {}
    /\ phpLines \in TwiceNested =>
         /\ Len(duplicates) = 2
         /\ \E r \in ReportsOf(<<"a">>) :
              duplicates[r].count = 2 /\ duplicates[r].lines = <<3, 6>>
         /\ \E r \in ReportsOf(<<"a",".","b">>) :
              duplicates[r].count = 2 /\ duplicates[r].lines = <<4, 7>>

\* the text with the two nested blocks has been read and grouped
C5_Witness ==
  /\ dupPc = "done"
  /\ phpLines \in TwiceNested
  /\ Len(keys) = 4
  /\ Len(duplicates) = 2

\* the line that was read last is a key line
ReadKeyLine ==
  /\ dupPc = "lines" /\ lineNum' = lineNum + 1
  /\ KeyMatch(phpLines[lineNum + 1]).ok

\* the line that was read last holds no key
ReadPlainLine ==
  /\ dupPc = "lines" /\ lineNum' = lineNum + 1
  /\ ~KeyMatch(phpLines[lineNum + 1]).ok

\* the stack after its last n frames were dropped, none below the bottom
DropLast(stack, n) ==
  SubSeq(stack, 1, IF n >= Len(stack) THEN 0 ELSE Len(stack) - n)

\* the lines open..close are a nested block: line open holds a key and opens an array,
\* line close is the first line after it that is indented no deeper, holds no
\* key and starts with the closing bracket
IsBlock(open, close) ==
  /\ 1 <= open /\ open < close /\ close <= Len(phpLines)
  /\ KeyMatch(phpLines[open]).ok
  /\ NetDepth(phpLines[open]) > 0
  /\ ~KeyMatch(phpLines[close]).ok
  /\ Indent(phpLines[close]) = Indent(phpLines[open])
  /\ Trim(phpLines[close]) # <<>>
  /\ Trim(phpLines[close])[1] \in {"]", ")"}
  /\ \A m \in (open + 1)..(close - 1) : Indent(phpLines[m]) > Indent(phpLines[open])

\* the parent path the stack gives now is the one the key of line open got
SameParentAsLine(open) ==
  \E n \in 1..Len(keys) :
    /\ keys[n].line = open
    /\ PathOf(pathStack, keys[n].key) = keys[n].path

\* every line strictly inside the block open..close is a key line that opens and
\* closes nothing on balance, or lies in a nested block of the same kind
RECURSIVE PlainInside(_, _)
PlainInside(open, close) ==
  \A m \in (open + 1)..(close - 1) :
    \/ KeyMatch(phpLines[m]).ok /\ NetDepth(phpLines[m]) = 0
    \/ \E a \in (open + 1)..m, b \in m..(close - 1) :
         IsBlock(a, b) /\ (a < m => PlainInside(a, b))

\* C25: the stack changes only as follows: a key line pushes one frame when
\* its net bracket delta is positive and leaves the stack alone otherwise, a
\* line without a key pops one frame per net closure, pops on an empty stack
\* are no-ops, and right after the closing line of a nested block the stack
\* gives the parent path it gave before the block.
C25_AsClaimed ==
  /\ [][/\ (ReadKeyLine =>
              LET line == phpLines[lineNum + 1]
              IN  pathStack' = IF NetDepth(line) > 0
                                 THEN Append(pathStack, [key |-> KeyMatch(line).key,
                                                         indent |-> Indent(line)])
                                 ELSE pathStack)
         /\ (ReadPlainLine =>
              LET closes == 0 - NetDepth(phpLines[lineNum + 1])
              IN  pathStack' = IF closes > 0 THEN DropLast(pathStack, closes)
                                 ELSE pathStack)]_vars
  /\ [](dupPc = "lines" =>
          \A open \in 1..lineNum : IsBlock(open, lineNum) => SameParentAsLine(open))

\* what the code keeps: a key line with a negative delta pops as a line
\* without a key does, and the stack is as before after a nested block
\* whose lines open and close nothing but nested blocks of the same kind
C25_KeyLinePopsToo ==
  /\ [][/\ (ReadKeyLine =>
              LET line == phpLines[lineNum + 1]
              IN  pathStack' = IF NetDepth(line) > 0
                                 THEN Append(pathStack, [key |-> KeyMatch(line).key,
                                                         indent |-> Indent(line)])
                                 ELSE DropLast(pathStack, 0 - NetDepth(line)))
         /\ (ReadPlainLine =>
              LET closes == 0 - NetDepth(phpLines[lineNum + 1])
              IN  pathStack' = IF closes > 0 THEN DropLast(pathStack, closes)
                                 ELSE pathStack)]_vars
  /\ [](dupPc = "lines" =>
          \A open \in 1..lineNum :
            IsBlock(open, lineNum) /\ PlainInside(open, lineNum) => SameParentAsLine(open))

\* C27: for every text and a path of a known dialect stripComments returns
\* a text of the same length with a line feed at exactly the offsets of the
\* line feeds of the input, in which every character is the original one or
\* a space; for a path of an unknown dialect it returns its input.
C27_LengthAndLinesKept ==
  (pc = "split" /\ HasStringMethods(argument)) =>
    IF KnownDialect(filePath)
      THEN /\ cleanedContent.type = "string"
           /\ Len(cleanedContent.str) = Len(argument.str)
           /\ \A p \in 1..Len(argument.str) :
                /\ cleanedContent.str[p] = "\n" <=> argument.str[p] = "\n"
                /\ cleanedContent.str[p] \in {argument.str[p], " "}
           /\ Len(Split(cleanedContent.str)) = Len(Split(argument.str))
           /\ \A n \in 1..Len(Split(argument.str)) :
                Len(Split(cleanedContent.str)[n]) = Len(Split(argument.str)[n])
      ELSE cleanedContent = argument

\* a block comment that runs over a line feed was blanked on both sides of
\* it in a file of a known dialect
C27_Witness ==
  /\ pc = "split"
  /\ KnownDialect(filePath)
  /\ HasStringMethods(argument)
  /\ \E p \in 2..(Len(argument.str) - 1) :
       /\ argument.str[p] = "\n"
       /\ cleanedContent.str[p] = "\n"
       /\ argument.str[p - 1] # " " /\ cleanedContent.str[p - 1] = " "
       /\ argument.str[p + 1] # " " /\ cleanedContent.str[p + 1] = " "

\* C28: during one walk no canonical directory path is listed more than
\* once, a directory whose canonical path was visited already is not listed
\* and yields nothing, every directory that is listed is in the one visited
\* set, no file path is yielded twice, and the walk comes to an end, also
\* over a tree with circular symbolic links.
C28_WalkVisitsOnce ==
  /\ [](walkPc # "off" =>
          /\ \A m, n \in 1..Len(listed) : m # n => listed[m] # listed[n]
          /\ \A n \in 1..Len(listed) :
               listed[n] \in visited /\ listed[n] \notin walkArgs.visited
          /\ \A n \in 1..Len(yielded) :
               realpathSync(walkArgs.tree, SubSeq(yielded[n], 1, Len(yielded[n]) - 1)).real
                 \in Elements(listed)
          /\ \A m, n \in 1..Len(yielded) : m # n => yielded[m] # yielded[n])
  /\ <>(walkPc = "done")

\* the real path p holds a symbolic link to itself or to a directory above
HoldsCircularLink(p) ==
  \E n \in 1..Len(walkArgs.tree[p]) :
    LET ent == walkArgs.tree[p][n]
    IN  /\ ent.kind = "link"
        /\ Len(ent.target) <= Len(p)
        /\ ent.target = SubSeq(p, 1, Len(ent.target))

\* the walk is over: it listed src and src/a, each of which holds a link
\* back to src, and it yielded a file
C28_Witness ==
  /\ walkPc = "done"
  /\ Len(listed) = 2
  /\ \A n \in 1..Len(listed) : HoldsCircularLink(listed[n])
  /\ yielded # <<>>

\* the file has a dynamic-key record at line n
HasDynamicRecord(n) ==
  \E m \in 1..Len(results.dynamicKeys) : results.dynamicKeys[m].line = n

\* C29: each call the fixture marks as a dynamic key (the template literal,
\* the interpolated string, the two concatenations) gives a dynamicKeys
\* record at its line and no static key.
C29_AsClaimed ==
  pc = "mergeKeys" =>
    \A n \in 1..Len(lines) :
      lines[n] \in FixtureDynamicLines => HasDynamicRecord(n) /\ n \notin LinesWithKey

\* what the code keeps: the interpolated string gives a record and no key,
\* the template literal a record and the key errors.${errorType}, the two
\* concatenations neither a record nor a key
C29_DollarFormsOnly ==
  pc = "mergeKeys" =>
    \A n \in 1..Len(lines) :
      /\ lines[n] = FixtureInterpolated => HasDynamicRecord(n) /\ n \notin LinesWithKey
      /\ lines[n] = FixtureTemplate =>
           /\ HasDynamicRecord(n)
           /\ RecordsAt(results, <<"e","r","r","o","r","s",".","$","{","e","r","r","o","r","T","y","p","e","}">>, n) # {}
      /\ lines[n] \in {FixtureConcatPlus, FixtureConcatDot} =>
           ~HasDynamicRecord(n) /\ n \notin LinesWithKey

\* C17: extractKeys called with content that is not a string does not throw
\* and returns a result with no keys, no locations and no dynamic keys.
C17_AsClaimed ==
  ~HasStringMethods(argument) =>
    /\ pc # "thrown"
    /\ pc = "mergeKeys" => results = EmptyResults

\* ------------------------------------------------------------------------
\* extractParams and extractPlurals called with one catalog value
\* ------------------------------------------------------------------------
InitValue ==
  /\ input \in Values
  /\ params = <<>>
  /\ plurals = null
  /\ valuePc = "params"
  /\ ScanIdle /\ GitIdle /\ LoadIdle /\ DupIdle /\ MainIdle /\ CallIdle /\ SignalIdle /\ WalkIdle

\* params: extractParams(value)
CallExtractParams ==
  /\ valuePc = "params"
  /\ params' = extractParams(input)
  /\ valuePc' = "plurals"
  /\ UNCHANGED <<input, plurals>>
  /\ UNCHANGED <<scanVars, gitVars, loadVars, dupVars, mainVars, callVars, signalVars, walkVars>>

\* plurals: extractPlurals(value)
CallExtractPlurals ==
  /\ valuePc = "plurals"
  /\ plurals' = extractPlurals(input)
  /\ valuePc' = "done"
  /\ UNCHANGED <<input, params>>
  /\ UNCHANGED <<scanVars, gitVars, loadVars, dupVars, mainVars, callVars, signalVars, walkVars>>

NextValue ==
  \/ CallExtractParams
  \/ CallExtractPlurals

SpecValue ==
  InitValue /\ [][NextValue]_vars

\* ------------------------------------------------------------------------
\* Properties of extractParams and extractPlurals
\* ------------------------------------------------------------------------
\* the runs of word characters of s that cannot be extended to the right, as
\* pairs of their first and last position
WordRuns(s) ==
  { r \in (1..Len(s)) \X (1..Len(s)) :
      /\ r[1] <= r[2]
      /\ \A q \in r[1]..r[2] : s[q] \in WordChar
      /\ r[2] = Len(s) \/ s[r[2] + 1] \notin WordChar }

\* the identifiers written as :name
ColonIdentifiers(s) ==
  { SubSeq(s, r[1], r[2]) : r \in { w \in WordRuns(s) : w[1] > 1 /\ s[w[1] - 1] = ":" } }

\* the identifiers written as {name} that are not made of digits only
BraceIdentifiers(s) ==
  { SubSeq(s, r[1], r[2]) :
      r \in { w \in WordRuns(s) :
                /\ w[1] > 1 /\ s[w[1] - 1] = "{"
                /\ w[2] < Len(s) /\ s[w[2] + 1] = "}"
                /\ \E q \in w[1]..w[2] : s[q] \notin Digit } }

\* C15: for every input string extractParams returns a strictly ascending
\* sequence (sorted, no duplicates) that holds exactly the identifiers found
\* as :name or {name}, brace contents made of digits only left out; a value
\* whose only braces are {0} and {1}, with no colon placeholder, yields the
\* empty sequence, and so does a value that is no string.
C15_ParamsSortedExact ==
  valuePc \in {"plurals", "done"} =>
    /\ input.type = "string" =>
         /\ \A m, n \in 1..Len(params) : m < n => NameBefore(params[m], params[n])
         /\ Elements(params) = ColonIdentifiers(input.str) \cup BraceIdentifiers(input.str)
    /\ ( /\ input.type = "string"
         /\ \A p \in 1..Len(input.str) :
              input.str[p] = "{" =>
                \/ StartsAt(input.str, p, <<"{","0","}">>)
                \/ StartsAt(input.str, p, <<"{","1","}">>)
         /\ ColonIdentifiers(input.str) = {} ) => params = <<>>
    /\ input.type # "string" => params = <<>>

\* a text with a colon placeholder given twice, a brace placeholder that sorts
\* before it and a brace of digits has been read
C15_Witness ==
  /\ valuePc = "plurals"
  /\ input = Str(ParamExample)
  /\ params = << <<"c","o","u","n","t">>, <<"n","a","m","e">> >>

\* s[a..b] is a non-empty run of digits
IsNumber(s, a, b) ==
  a <= b /\ \A q \in a..b : s[q] \in Digit

\* the markers {N} of s: [at, rule]
ExactMarkers(s) ==
  { [at |-> m[1], rule |-> [type |-> "exact", value |-> ParseInt(SubSeq(s, m[1] + 1, m[2] - 1))]] :
      m \in { r \in (1..Len(s)) \X (1..Len(s)) :
                s[r[1]] = "{" /\ s[r[2]] = "}" /\ IsNumber(s, r[1] + 1, r[2] - 1) } }

\* the markers [N,M] and [N,*] of s: [at, rule]
RangeMarkers(s) ==
  { [at |-> m[1],
     rule |-> [type |-> "range", from |-> ParseInt(SubSeq(s, m[1] + 1, m[2] - 1)),
               to |-> IF s[m[3] - 1] = "*" THEN Infinity
                      ELSE ParseInt(SubSeq(s, m[2] + 1, m[3] - 1))]] :
      m \in { r \in (1..Len(s)) \X (1..Len(s)) \X (1..Len(s)) :
                /\ s[r[1]] = "[" /\ s[r[2]] = "," /\ s[r[3]] = "]"
                /\ IsNumber(s, r[1] + 1, r[2] - 1)
                /\ \/ IsNumber(s, r[2] + 1, r[3] - 1)
                   \/ (r[3] = r[2] + 2 /\ s[r[2] + 1] = "*") } }

Markers(s) ==
  ExactMarkers(s) \cup RangeMarkers(s)

\* C16: for every input string extractPlurals returns null iff the string has
\* no marker {N}, [N,M] or [N,*]; otherwise it returns one rule per marker in
\* the order of the text, with raw equal to the input; the text
\* "{0} none|[1,1] one|[2,*] many" yields exact(0), range(1,1), range(2, unbounded).
C16_PluralRulesInTextOrder ==
  (valuePc = "done" /\ input.type = "string") =>
    /\ plurals = null <=> Markers(input.str) = {}
    /\ plurals # null =>
         /\ plurals.raw = input.str
         /\ Len(plurals.rules) = Cardinality(Markers(input.str))
         /\ \A m \in Markers(input.str) :
              plurals.rules[Cardinality({ n \in Markers(input.str) : n.at <= m.at })] = m.rule
    /\ input.str = PluralExample =>
         plurals.rules = << [type |-> "exact", value |-> 0],
                            [type |-> "range", from |-> 1, to |-> 1],
                            [type |-> "range", from |-> 2, to |-> Infinity] >>

\* the example text has been read and has given its three rules
C16_Witness ==
  /\ valuePc = "done"
  /\ input = Str(PluralExample)
  /\ plurals # null
  /\ Len(plurals.rules) = 3

\* ------------------------------------------------------------------------
\* main after the scan loop: analysis, report, exit
\* ------------------------------------------------------------------------
\* loadLocale as one function of the catalog files of a locale
RECURSIVE DefineAll(_, _)
DefineAll(into, defs) ==
  IF defs = <<>> THEN into
  ELSE DefineAll(Define(into, Head(defs).key, Head(defs).value, Head(defs).file), Tail(defs))

LoadedMap(loc, catalog) ==
  DefineAll(<<>>,
    (IF catalog.single.exists
       THEN Produced(loc \o <<".","p","h","p">>, flatten(catalog.single.data, <<>>, <<>>))
       ELSE <<>>)
      \o (IF catalog.dir.exists THEN ListingProduced(catalog.dir.entries) ELSE <<>>)
      \o (IF catalog.json.exists
            THEN Produced(loc \o <<".","j","s","o","n">>, catalog.json.data)
            ELSE <<>>))

\* usedKeysData after the scan loop found the keys in one file
ScannedIndex(used) ==
  [keys        |-> used,
   dynamicKeys |-> <<>>,
   locations   |-> [k \in used |->
                      << [file    |-> <<"v",".","j","s">>,
                          line    |-> 1,
                          snippet |-> Call1(DU, k, <<")">>)[1]] >>]]

\* main stands at the analysis: the catalogs are loaded, the tree is scanned
AtAnalysis(config, tree, used) ==
  /\ CONFIG = config
  /\ langTree = tree
  /\ localeMaps = [loc \in Elements(config.LOCALES) |-> LoadedMap(loc, tree[loc])]
  /\ missingByLocale = <<>>
  /\ parity = <<>>
  /\ duplicateKeys = <<>>
  /\ paramIssues = {}
  /\ pluralIssues = {}
  /\ intraFileDuplicates = <<>>
  /\ orphans = <<>>
  /\ exitCode = 0
  /\ output = NoOutput
  /\ processExit = NotExited
  /\ mainPc = "missing"
  /\ queue = <<>>
  /\ pc = "idle"
  /\ filePath = <<>>
  /\ content = <<>>
  /\ lines = <<>>
  /\ cleanedLines = <<>>
  /\ i = 0
  /\ results = EmptyResults
  /\ processedMatches = {}
  /\ usedKeysData = ScannedIndex(used)
  /\ filesScanned = 1
  /\ GitIdle /\ LoadIdle /\ DupIdle /\ RestIdle

\* the configurations of the audit: orphan reporting on or off, ignore lists
AuditConfigs ==
  { [LOCALES |-> ls, SHOW_ORPHANS |-> so, FAIL_ON_ORPHANS |-> FALSE,
     SHOW_DUPLICATES |-> TRUE, CHECK_PARAMS |-> FALSE, CHECK_PLURALS |-> FALSE,
     CHECK_FILE_DUPLICATES |-> FALSE, JSON_OUTPUT |-> FALSE,
     IGNORE_KEYS |-> ig.keys, IGNORE_DOMAINS |-> ig.domains, IGNORE_PATTERNS |-> ig.patterns] :
      ls \in LocaleLists, so \in BOOLEAN, ig \in IgnoreLists }

InitAudit ==
  \E config \in AuditConfigs :
    \E tree \in [Elements(config.LOCALES) -> AuditCatalogs] :
      \E used \in UsedKeySets :
        AtAnalysis(config, tree, used)

\* Check missing keys
CheckMissing ==
  /\ mainPc = "missing"
  /\ missingByLocale' = MissingByLocale(CONFIG.LOCALES, localeMaps, usedKeysData.keys)
  /\ mainPc' = "parity"
  /\ UNCHANGED <<CONFIG, langTree, localeMaps, parity, duplicateKeys, paramIssues,
                 pluralIssues, intraFileDuplicates, orphans, exitCode, output, processExit>>
  /\ UNCHANGED <<scanVars, gitVars, loadVars, dupVars, restVars>>

\* Check parity
CheckParity ==
  /\ mainPc = "parity"
  /\ parity' = Parity(CONFIG.LOCALES, localeMaps)
  /\ mainPc' = "duplicates"
  /\ UNCHANGED <<CONFIG, langTree, localeMaps, missingByLocale, duplicateKeys, paramIssues,
                 pluralIssues, intraFileDuplicates, orphans, exitCode, output, processExit>>
  /\ UNCHANGED <<scanVars, gitVars, loadVars, dupVars, restVars>>

\* Check duplicates (if enabled)
CheckDuplicates ==
  /\ mainPc = "duplicates"
  /\ duplicateKeys' = IF CONFIG.SHOW_DUPLICATES THEN checkDuplicates(localeMaps) ELSE <<>>
  /\ mainPc' = "params"
  /\ UNCHANGED <<CONFIG, langTree, localeMaps, missingByLocale, parity, paramIssues,
                 pluralIssues, intraFileDuplicates, orphans, exitCode, output, processExit>>
  /\ UNCHANGED <<scanVars, gitVars, loadVars, dupVars, restVars>>

\* Check parameters
CheckParams ==
  /\ mainPc = "params"
  /\ paramIssues' = IF CONFIG.CHECK_PARAMS
                      THEN checkParameters(localeMaps, CONFIG.LOCALES[1]) ELSE {}
  /\ mainPc' = "plurals"
  /\ UNCHANGED <<CONFIG, langTree, localeMaps, missingByLocale, parity, duplicateKeys,
                 pluralIssues, intraFileDuplicates, orphans, exitCode, output, processExit>>
  /\ UNCHANGED <<scanVars, gitVars, loadVars, dupVars, restVars>>

\* Check pluralization
CheckPlurals ==
  /\ mainPc = "plurals"
  /\ pluralIssues' = IF CONFIG.CHECK_PLURALS
                       THEN checkPluralization(localeMaps, CONFIG.LOCALES[1]) ELSE {}
  /\ mainPc' = "fileDuplicates"
  /\ UNCHANGED <<CONFIG, langTree, localeMaps, missingByLocale, parity, duplicateKeys,
                 paramIssues, intraFileDuplicates, orphans, exitCode, output, processExit>>
  /\ UNCHANGED <<scanVars, gitVars, loadVars, dupVars, restVars>>

\* Check intra-file duplicates
CheckFileDuplicates ==
  /\ mainPc = "fileDuplicates"
  /\ intraFileDuplicates' = IF CONFIG.CHECK_FILE_DUPLICATES
                              THEN checkIntraFileDuplicates(CONFIG.LOCALES, langTree)
                              ELSE <<>>
  /\ mainPc' = "orphans"
  /\ UNCHANGED <<CONFIG, langTree, localeMaps, missingByLocale, parity, duplicateKeys,
                 paramIssues, pluralIssues, orphans, exitCode, output, processExit>>
  /\ UNCHANGED <<scanVars, gitVars, loadVars, dupVars, restVars>>

\* Check orphans
CheckOrphans ==
  /\ mainPc = "orphans"
  /\ orphans' = IF CONFIG.SHOW_ORPHANS
                  THEN Orphans(CONFIG, localeMaps, usedKeysData.keys) ELSE <<>>
  /\ mainPc' = "report"
  /\ UNCHANGED <<CONFIG, langTree, localeMaps, missingByLocale, parity, duplicateKeys,
                 paramIssues, pluralIssues, intraFileDuplicates, exitCode, output,
                 processExit>>
  /\ UNCHANGED <<scanVars, gitVars, loadVars, dupVars, restVars>>

\* if (condition) exitCode |= flag
OrIf(condition, code, flag) ==
  IF condition THEN BitOr(code, flag) ELSE code

\* let exitCode = EXIT_CODES.SUCCESS, then the report blocks in their order:
\* missing, parity, duplicates, parameters, plurals, duplicates within
\* files, orphans
Report ==
  /\ mainPc = "report"
  /\ exitCode' =
       LET missing    == OrIf(DOMAIN missingByLocale # {},
                              EXIT_CODES.SUCCESS, EXIT_CODES.MISSING_TRANSLATIONS)
           parities   == OrIf(DOMAIN parity # {}, missing, EXIT_CODES.PARITY_ISSUES)
           duplicated == OrIf(CONFIG.SHOW_DUPLICATES /\ DOMAIN duplicateKeys # {},
                              parities, EXIT_CODES.DUPLICATE_KEYS)
           parameters == OrIf(CONFIG.CHECK_PARAMS /\ paramIssues # {},
                              duplicated, EXIT_CODES.PARAMETER_MISMATCHES)
           pluralized == OrIf(CONFIG.CHECK_PLURALS /\ pluralIssues # {},
                              parameters, EXIT_CODES.PLURALIZATION_ISSUES)
           inFiles    == OrIf(CONFIG.CHECK_FILE_DUPLICATES /\ intraFileDuplicates # <<>>,
                              pluralized, EXIT_CODES.INTRA_FILE_DUPLICATES)
       IN  IF CONFIG.SHOW_ORPHANS /\ orphans # <<>>
             THEN OrIf(CONFIG.FAIL_ON_ORPHANS, inFiles, EXIT_CODES.ORPHAN_KEYS)
             ELSE inFiles
  /\ mainPc' = "exit"
  /\ UNCHANGED <<CONFIG, langTree, localeMaps, missingByLocale, parity, duplicateKeys,
                 paramIssues, pluralIssues, intraFileDuplicates, orphans, output,
                 processExit>>
  /\ UNCHANGED <<scanVars, gitVars, loadVars, dupVars, restVars>>

\* the JSON output, if asked for, and process.exit(exitCode)
Exit ==
  /\ mainPc = "exit"
  /\ output' = IF CONFIG.JSON_OUTPUT
                 THEN [printed |-> TRUE, success |-> exitCode = EXIT_CODES.SUCCESS,
                       exitCode |-> exitCode]
                 ELSE NoOutput
  /\ processExit' = [called |-> TRUE, code |-> exitCode]
  /\ mainPc' = "exited"
  /\ UNCHANGED <<CONFIG, langTree, localeMaps, missingByLocale, parity, duplicateKeys,
                 paramIssues, pluralIssues, intraFileDuplicates, orphans, exitCode>>
  /\ UNCHANGED <<scanVars, gitVars, loadVars, dupVars, restVars>>

NextMain ==
  \/ CheckMissing
  \/ CheckParity
  \/ CheckDuplicates
  \/ CheckParams
  \/ CheckPlurals
  \/ CheckFileDuplicates
  \/ CheckOrphans
  \/ Report
  \/ Exit

SpecAudit ==
  InitAudit /\ [][NextMain]_vars

\* the configurations of the report: every combination of the flags that
\* switch a check or the JSON output on, two locales, no ignore list or one
ExitConfigs ==
  { [LOCALES |-> << LocaleNames[1], LocaleNames[2] >>,
     SHOW_ORPHANS |-> so, FAIL_ON_ORPHANS |-> fo, SHOW_DUPLICATES |-> sd,
     CHECK_PARAMS |-> cp, CHECK_PLURALS |-> cl, CHECK_FILE_DUPLICATES |-> cf,
     JSON_OUTPUT |-> jo,
     IGNORE_KEYS |-> <<>>, IGNORE_DOMAINS |-> <<>>, IGNORE_PATTERNS |-> <<>>] :
      so \in BOOLEAN, fo \in BOOLEAN, sd \in BOOLEAN, cp \in BOOLEAN, cl \in BOOLEAN,
      cf \in BOOLEAN, jo \in BOOLEAN }

InitExit ==
  \E config \in ExitConfigs :
    \E tree \in [Elements(config.LOCALES) -> Catalogs] :
      \E used \in UsedKeySets :
        AtAnalysis(config, tree, used)

SpecExit ==
  InitExit /\ [][NextMain]_vars

\* the configurations with the check of the files on or off, with or
\* without the JSON output
FileConfigs ==
  { c \in ExitConfigs :
      /\ c.SHOW_ORPHANS /\ ~c.FAIL_ON_ORPHANS /\ c.SHOW_DUPLICATES
      /\ c.CHECK_PARAMS /\ c.CHECK_PLURALS }

InitFiles ==
  \E config \in FileConfigs :
    \E tree \in [Elements(config.LOCALES) -> FileCatalogs] :
      \E used \in UsedKeySets :
        AtAnalysis(config, tree, used)

SpecFiles ==
  InitFiles /\ [][NextMain]_vars

\* ------------------------------------------------------------------------
\* Signals that arrive during a run of main
\* main is one synchronous function call made while the module is
\* evaluated: it is on the stack from its first statement to process.exit.
\* Node calls the listeners of SIGINT and SIGTERM from the event loop, which
\* gets its turn only when the stack is empty.
\* ------------------------------------------------------------------------
MaxSignals ==
  2

Signals ==
  { "SIGINT", "SIGTERM" }

\* handleShutdown(signal): [isShuttingDown, processExit] after the call
handleShutdown(shuttingDown, exit) ==
  IF shuttingDown THEN [isShuttingDown |-> shuttingDown, processExit |-> exit]
  ELSE [isShuttingDown |-> TRUE, processExit |-> [called |-> TRUE, code |-> 130]]

\* main is on the stack
MainRunning ==
  mainPc # "off" /\ ~processExit.called

\* a run of main at the start of the scan loop: the catalogs are loaded
InitSignal ==
  /\ \E config \in { c \in ExitConfigs : c.SHOW_DUPLICATES /\ ~c.CHECK_PARAMS /\ ~c.CHECK_PLURALS
                                            /\ ~c.CHECK_FILE_DUPLICATES /\ ~c.FAIL_ON_ORPHANS } :
       \E catalog \in AuditCatalogs :
         /\ CONFIG = config
         /\ langTree = [loc \in Elements(config.LOCALES) |-> catalog]
         /\ localeMaps = [loc \in Elements(config.LOCALES) |-> LoadedMap(loc, catalog)]
  /\ missingByLocale = <<>>
  /\ parity = <<>>
  /\ duplicateKeys = <<>>
  /\ paramIssues = {}
  /\ pluralIssues = {}
  /\ intraFileDuplicates = <<>>
  /\ orphans = <<>>
  /\ exitCode = 0
  /\ output = NoOutput
  /\ processExit = NotExited
  /\ mainPc = "scan"
  /\ queue \in SeqsOf(TreeFiles, MaxFiles)
  /\ pc = "idle"
  /\ filePath = <<>>
  /\ content = <<>>
  /\ lines = <<>>
  /\ cleanedLines = <<>>
  /\ i = 0
  /\ results = EmptyResults
  /\ processedMatches = {}
  /\ usedKeysData = EmptyResults
  /\ filesScanned = 0
  /\ GitIdle /\ LoadIdle /\ DupIdle /\ ValueIdle /\ CallIdle /\ SignalIdle /\ WalkIdle

\* SIGINT or SIGTERM is delivered to the process.  While main is on the
\* stack the listener waits for the event loop; with an empty stack the
\* listener runs handleShutdown at once.  Of a waiting signal the state
\* keeps where main stood when it arrived.
Signal ==
  /\ ~processExit.called
  /\ Len(pendingSignals) < MaxSignals
  /\ \E signal \in Signals :
       IF MainRunning
         THEN /\ pendingSignals' =
                   Append(pendingSignals,
                          [signal |-> signal, during |-> mainPc, scanned |-> filesScanned,
                           left |-> IF pc = "idle" THEN Len(queue) ELSE Len(queue) - 1])
              /\ UNCHANGED <<isShuttingDown, mainVars>>
         ELSE /\ isShuttingDown' = handleShutdown(isShuttingDown, processExit).isShuttingDown
              /\ processExit' = handleShutdown(isShuttingDown, processExit).processExit
              /\ UNCHANGED <<pendingSignals, CONFIG, langTree, localeMaps, missingByLocale,
                             parity, duplicateKeys, paramIssues, pluralIssues,
                             intraFileDuplicates, orphans, exitCode, output, mainPc>>
  /\ UNCHANGED <<scanVars, gitVars, loadVars, dupVars, valueVars, callVars, walkVars>>

\* the for loop over walk() is done: main goes on to the analysis
FinishScan ==
  /\ mainPc = "scan"
  /\ pc = "idle"
  /\ queue = <<>>
  /\ mainPc' = "missing"
  /\ UNCHANGED <<CONFIG, langTree, localeMaps, missingByLocale, parity, duplicateKeys,
                 paramIssues, pluralIssues, intraFileDuplicates, orphans, exitCode, output,
                 processExit>>
  /\ UNCHANGED <<scanVars, gitVars, loadVars, dupVars, restVars>>

NextSignal ==
  \/ ReadFile
  \/ Window
  \/ Return
  \/ MergeKeys
  \/ MergeLocations
  \/ FinishScan
  \/ NextMain
  \/ Signal

SpecSignal ==
  InitSignal /\ [][NextSignal]_vars

\* ------------------------------------------------------------------------
\* Properties of the analysis
\* ------------------------------------------------------------------------
\* array holds the strings of the set, each once, in ascending order
IsSortedArrayOf(array, strings) ==
  /\ Elements(array) = strings
  /\ \A m, n \in 1..Len(array) : m < n => StringBefore(array[m], array[n])

C13_ParityExact ==
  mainPc \notin {"off", "missing", "parity"} =>
    LET base     == CONFIG.LOCALES[1]
        baseKeys == DOMAIN localeMaps[base]
    IN  /\ base \notin DOMAIN parity
        /\ DOMAIN parity \subseteq Elements(CONFIG.LOCALES)
        /\ \A loc \in Elements(CONFIG.LOCALES) \ {base} :
             LET lacking == baseKeys \ DOMAIN localeMaps[loc]
                 added   == DOMAIN localeMaps[loc] \ baseKeys
             IN  /\ loc \in DOMAIN parity <=> (lacking # {} \/ added # {})
                 /\ loc \in DOMAIN parity =>
                      /\ IsSortedArrayOf(parity[loc].missingFromLocale, lacking)
                      /\ IsSortedArrayOf(parity[loc].extraInLocale, added)

\* a locale lacks a key of the base and adds one of its own
C13_Witness ==
  /\ mainPc = "duplicates"
  /\ \E loc \in DOMAIN parity :
       /\ parity[loc].missingFromLocale # <<>>
       /\ parity[loc].extraInLocale # <<>>

\* the keys the claim C14 calls excluded: in the exact-key list, or equal to a
\* listed domain or beginning with the domain and a dot, or matched by one of
\* the patterns that are regular expressions
ExcludedKeys ==
  { k \in UNION { DOMAIN localeMaps[loc] : loc \in DOMAIN localeMaps } :
      \/ \E n \in 1..Len(CONFIG.IGNORE_KEYS) : CONFIG.IGNORE_KEYS[n] = k
      \/ \E n \in 1..Len(CONFIG.IGNORE_DOMAINS) :
           \/ k = CONFIG.IGNORE_DOMAINS[n]
           \/ /\ Len(k) > Len(CONFIG.IGNORE_DOMAINS[n])
              /\ SubSeq(k, 1, Len(CONFIG.IGNORE_DOMAINS[n]) + 1)
                   = CONFIG.IGNORE_DOMAINS[n] \o <<".">>
      \/ \E n \in 1..Len(CONFIG.IGNORE_PATTERNS) :
           /\ RegExp(CONFIG.IGNORE_PATTERNS[n]).ok
           /\ RegExpTest(RegExp(CONFIG.IGNORE_PATTERNS[n]), k) }

\* C14: when orphan reporting is enabled, the orphan list is exactly the sorted
\* set of the keys of all locale catalogs that are not used and not excluded;
\* a pattern that is no regular expression excludes no key and the run goes on
\* to the report.
C14_OrphansExact ==
  (mainPc \notin {"off", "missing", "parity", "duplicates", "params", "plurals",
                  "fileDuplicates", "orphans"} /\ CONFIG.SHOW_ORPHANS) =>
    IsSortedArrayOf(orphans,
      { k \in UNION { DOMAIN localeMaps[loc] : loc \in DOMAIN localeMaps } :
          k \notin usedKeysData.keys /\ k \notin ExcludedKeys })

\* the pattern list begins with one that is no regular expression; the run
\* has gone on, a later pattern has excluded a key and another key is an orphan
C14_Witness ==
  /\ mainPc = "report"
  /\ CONFIG.SHOW_ORPHANS
  /\ CONFIG.IGNORE_PATTERNS # <<>>
  /\ ~RegExp(CONFIG.IGNORE_PATTERNS[1]).ok
  /\ PasswordsReset \in ExcludedKeys
  /\ PasswordsReset \notin usedKeysData.keys
  /\ orphans = <<AuthFailed>>

\* bit flag of an exit code is set
HasFlag(code, flag) ==
  (code \div flag) % 2 = 1

\* C20 (as claimed): the exit code is the bitwise OR of the flags 1 (some
\* locale has missing keys), 2 (some locale has a parity issue), 4 (cross-file
\* duplicates exist and duplicates are shown), 8 (parameter mismatches exist
\* and the check is on), 16 (orphan keys exist and FAIL_ON_ORPHANS is set),
\* 32 (pluralization issues exist and the check is on), 64 (intra-file
\* duplicates exist and the check is on) and of nothing else, and the success
\* field of the JSON output is true iff the exit code is 0.
C20_AsClaimed ==
  processExit.called =>
    LET code == processExit.code
        base == CONFIG.LOCALES[1]
    IN  /\ code \in 0..127
        /\ HasFlag(code, 1) <=>
             \E loc \in Elements(CONFIG.LOCALES) :
               usedKeysData.keys \ DOMAIN localeMaps[loc] # {}
        /\ HasFlag(code, 2) <=>
             \E loc \in Elements(CONFIG.LOCALES) :
               DOMAIN localeMaps[loc] # DOMAIN localeMaps[base]
        /\ HasFlag(code, 4) <=>
             /\ CONFIG.SHOW_DUPLICATES
             /\ \E loc \in Elements(CONFIG.LOCALES) :
                  \E k \in DOMAIN localeMaps[loc] : localeMaps[loc][k].count > 1
        /\ HasFlag(code, 8) <=>
             CONFIG.CHECK_PARAMS /\ checkParameters(localeMaps, base) # {}
        /\ HasFlag(code, 16) <=>
             /\ CONFIG.FAIL_ON_ORPHANS
             /\ Orphans(CONFIG, localeMaps, usedKeysData.keys) # <<>>
        /\ HasFlag(code, 32) <=>
             CONFIG.CHECK_PLURALS /\ checkPluralization(localeMaps, base) # {}
        /\ HasFlag(code, 64) <=>
             /\ CONFIG.CHECK_FILE_DUPLICATES
             /\ checkIntraFileDuplicates(CONFIG.LOCALES, langTree) # <<>>
        /\ output.printed => (output.success <=> code = 0)

\* what the code keeps: all of the above, with flag 16 set iff orphan keys
\* exist and SHOW_ORPHANS and FAIL_ON_ORPHANS are both set
C20_OrphanFlagNeedsShowOrphans ==
  processExit.called =>
    LET code == processExit.code
        base == CONFIG.LOCALES[1]
    IN  /\ code \in 0..127
        /\ HasFlag(code, 1) <=>
             \E loc \in Elements(CONFIG.LOCALES) :
               usedKeysData.keys \ DOMAIN localeMaps[loc] # {}
        /\ HasFlag(code, 2) <=>
             \E loc \in Elements(CONFIG.LOCALES) :
               DOMAIN localeMaps[loc] # DOMAIN localeMaps[base]
        /\ HasFlag(code, 4) <=>
             /\ CONFIG.SHOW_DUPLICATES
             /\ \E loc \in Elements(CONFIG.LOCALES) :
                  \E k \in DOMAIN localeMaps[loc] : localeMaps[loc][k].count > 1
        /\ HasFlag(code, 8) <=>
             CONFIG.CHECK_PARAMS /\ checkParameters(localeMaps, base) # {}
        /\ HasFlag(code, 16) <=>
             /\ CONFIG.SHOW_ORPHANS
             /\ CONFIG.FAIL_ON_ORPHANS
             /\ Orphans(CONFIG, localeMaps, usedKeysData.keys) # <<>>
        /\ HasFlag(code, 32) <=>
             CONFIG.CHECK_PLURALS /\ checkPluralization(localeMaps, base) # {}
        /\ HasFlag(code, 64) <=>
             /\ CONFIG.CHECK_FILE_DUPLICATES
             /\ checkIntraFileDuplicates(CONFIG.LOCALES, langTree) # <<>>
        /\ output.printed => (output.success <=> code = 0)

\* every flag is seen set and seen clear in some exit code, and all at once
C20_AllFlagsSet ==
  processExit.called /\ processExit.code = 127

\* C19 (as claimed): after SIGINT or SIGTERM has arrived during the scan of
\* the source tree, no further file read starts, the scan of the files that
\* remained does not complete, and the process exits with code 130;
\* handleShutdown acts at most once.
C19_AsClaimed ==
  /\ \A n \in 1..Len(pendingSignals) :
       pendingSignals[n].during = "scan" =>
         /\ filesScanned = pendingSignals[n].scanned
         /\ pendingSignals[n].left > 0 => mainPc = "scan"
         /\ processExit.called => processExit.code = 130
  /\ handleShutdown(TRUE, processExit).processExit = processExit

\* what the code does: a signal waits until main has called process.exit
\* with the exit code of the report; handleShutdown never runs
C19_SignalWaitsForMain ==
  /\ ~isShuttingDown
  /\ processExit.called => processExit.code = exitCode /\ mainPc = "exited"

\* the lines of the catalog file an issue names
LinesOfIssue(issue) ==
  LET catalog == langTree[issue.locale]
  IN  IF issue.file = issue.locale \o <<".","j","s","o","n">> THEN catalog.json.lines
      ELSE LET n == CHOOSE m \in 1..Len(catalog.dir.entries) :
                      catalog.dir.entries[m].name = issue.file
           IN  catalog.dir.entries[n].lines

\* the key as written on a line of the file an issue names
WrittenKey(issue, line) ==
  IF issue.file = issue.locale \o <<".","j","s","o","n">>
    THEN JsonKeyMatch(line).key
    ELSE KeyMatch(line).key

\* C26: every reported intra-file duplicate carries as key the key text as
\* written at its occurrences, and for a JSON catalog file the reported key
\* equals the reported fullPath, also for keys that contain a '.'.
C26_AsClaimed ==
  \A n \in 1..Len(intraFileDuplicates) :
    LET issue == intraFileDuplicates[n]
    IN  \A m \in 1..Len(issue.duplicates) :
          LET dup == issue.duplicates[m]
          IN  /\ \A k \in 1..Len(dup.lines) :
                   WrittenKey(issue, LinesOfIssue(issue)[dup.lines[k]]) = dup.key
              /\ issue.file = issue.locale \o <<".","j","s","o","n">> =>
                   dup.key = dup.fullPath

\* what the code keeps: the reported key is what follows the last '.' of
\* the full path, and in a JSON file the full path is the key as written
C26_KeyIsLastSegment ==
  \A n \in 1..Len(intraFileDuplicates) :
    LET issue == intraFileDuplicates[n]
    IN  \A m \in 1..Len(issue.duplicates) :
          LET dup == issue.duplicates[m]
          IN  /\ dup.key = LastSegment(dup.fullPath)
              /\ issue.file = issue.locale \o <<".","j","s","o","n">> =>
                   \A k \in 1..Len(dup.lines) :
                     WrittenKey(issue, LinesOfIssue(issue)[dup.lines[k]]) = dup.fullPath

\* the files of a locale from which loadLocale takes definitions, each with
\* its name and the duplicates its text holds
LoadedFiles(loc) ==
  LET catalog == langTree[loc]
  IN  (IF catalog.single.exists
         THEN { [file |-> loc \o <<".","p","h","p">>,
                 duplicates |-> findIntraFileDuplicates(extractPhpArrayKeys(catalog.single.lines))] }
         ELSE {})
      \cup (IF catalog.dir.exists
              THEN { [file |-> catalog.dir.entries[n].name,
                      duplicates |-> findIntraFileDuplicates(extractPhpArrayKeys(catalog.dir.entries[n].lines))] :
                       n \in { m \in 1..Len(catalog.dir.entries) :
                                 EndsWith(catalog.dir.entries[m].name, <<".","p","h","p">>) } }
              ELSE {})
      \cup (IF catalog.json.exists
              THEN { [file |-> loc \o <<".","j","s","o","n">>,
                      duplicates |-> findIntraFileDuplicates(extractJsonKeys(catalog.json.lines))] }
              ELSE {})

\* the file f of the locale has given a definition to the map of the locale
GaveDefinitions(loc, f) ==
  \E k \in DOMAIN localeMaps[loc] :
    \E n \in 1..Len(localeMaps[loc][k].files) : localeMaps[loc][k].files[n] = f

\* the issue reported for the file f of the locale carries these duplicates
Reported(loc, f, found) ==
  \E n \in 1..Len(intraFileDuplicates) :
    /\ intraFileDuplicates[n].locale = loc
    /\ intraFileDuplicates[n].file = f
    /\ intraFileDuplicates[n].duplicates = found

\* C30: once the check of the files has run, every catalog file from which
\* loadLocale took definitions for a locale and in which a path is written
\* more than once has an issue that reports its repeated paths.
C30_AsClaimed ==
  (CONFIG.CHECK_FILE_DUPLICATES /\ mainPc \in {"orphans", "report", "exit", "exited"}) =>
    \A loc \in Elements(CONFIG.LOCALES) :
      \A f \in LoadedFiles(loc) :
        (GaveDefinitions(loc, f.file) /\ f.duplicates # <<>>) =>
          Reported(loc, f.file, f.duplicates)

\* what the code keeps: the files of the locale directory and the JSON file
\* are examined, the flat file <locale>.php is not
C30_AllButFlatFile ==
  (CONFIG.CHECK_FILE_DUPLICATES /\ mainPc \in {"orphans", "report", "exit", "exited"}) =>
    \A loc \in Elements(CONFIG.LOCALES) :
      \A f \in LoadedFiles(loc) :
        IF f.file = loc \o <<".","p","h","p">>
          THEN \A n \in 1..Len(intraFileDuplicates) :
                 intraFileDuplicates[n].locale = loc => intraFileDuplicates[n].file # f.file
          ELSE f.duplicates # <<>> => Reported(loc, f.file, f.duplicates)

====
